---- MODULE Spec2Model ----
(***************************************************************************)
(* Registry access layer of geo-data: the fetch / validate / cache /       *)
(* stale-fallback pipeline of packages/cli/src/utils/registry.ts.          *)
(*                                                                         *)
(* Strings are sequences of one-character strings, so that startsWith,     *)
(* template concatenation and path.join are computed on the characters.    *)
(* Time is Date.now() in milliseconds.                                     *)
(***************************************************************************)
EXTENDS Integers, Sequences, FiniteSets, TLC

\* ------------------------------------------------------------------ bounds
\* number of clock advances explored
MaxTicks == 2
\* number of distinct contents the remote source can serve for one location
MaxVer == 2

\* number of waiting steps one request is followed for
MaxWaitSteps == 12

\* largest coordinate value of a city; coordinates range over 0..MaxCoord
MaxCoord == 1

\* --------------------------------------------------------------- constants
\* 30_000: delay of the abort timer of fetchJson
FETCH_TIMEOUT == 30000
\* 60 * 60 * 1000: freshness window of the index
INDEX_MAX_AGE == 3600000
\* 24 * 60 * 60 * 1000: freshness window of a dataset
COUNTRY_MAX_AGE == 86400000

\* clock advances: two thirds of an index window, and one dataset window
Deltas == {(2 * INDEX_MAX_AGE) \div 3, COUNTRY_MAX_AGE}

\* ----------------------------------------------------------------- strings
StartsWith(s, prefix) ==
    /\ Len(s) >= Len(prefix)
    /\ SubSeq(s, 1, Len(prefix)) = prefix

Contains(seq, x) == \E i \in 1..Len(seq) : seq[i] = x

Count(seq, x) == Cardinality({i \in 1..Len(seq) : seq[i] = x})

\* position of the first x in seq, 0 when there is none
IndexOf(seq, x) ==
    IF Contains(seq, x)
    THEN CHOOSE i \in 1..Len(seq) : seq[i] = x /\ \A j \in 1..(i - 1) : seq[j] # x
    ELSE 0

Slash == <<"/">>
Dot == <<".">>
DotDot == <<".", ".">>
HttpPrefix == <<"h", "t", "t", "p", ":", "/", "/">>
HttpsPrefix == <<"h", "t", "t", "p", "s", ":", "/", "/">>
IndexJson == <<"i", "n", "d", "e", "x", ".", "j", "s", "o", "n">>
CountriesDir == <<"c", "o", "u", "n", "t", "r", "i", "e", "s">>
JsonExt == <<".", "j", "s", "o", "n">>
IndexKey == <<"r", "e", "g", "i", "s", "t", "r", "y", "-", "i", "n", "d", "e", "x">>
CountryKeyPrefix == <<"c", "o", "u", "n", "t", "r", "y", "-">>

\* ------------------------------------------------------------ path (posix)
\* split a path at "/" into its segments (empty segments included)
RECURSIVE SplitFrom(_, _, _)
SplitFrom(s, i, cur) ==
    IF i > Len(s) THEN <<cur>>
    ELSE IF s[i] = "/" THEN <<cur>> \o SplitFrom(s, i + 1, <<>>)
    ELSE SplitFrom(s, i + 1, Append(cur, s[i]))

Split(s) == SplitFrom(s, 1, <<>>)

\* resolve "." and ".." segments and drop empty ones
RECURSIVE NormalizeSegments(_, _, _, _)
NormalizeSegments(segs, i, acc, allowAboveRoot) ==
    IF i > Len(segs) THEN acc
    ELSE LET seg == segs[i] IN
         IF seg = <<>> \/ seg = Dot
         THEN NormalizeSegments(segs, i + 1, acc, allowAboveRoot)
         ELSE IF seg = DotDot
         THEN IF Len(acc) > 0 /\ acc[Len(acc)] # DotDot
              THEN NormalizeSegments(segs, i + 1, SubSeq(acc, 1, Len(acc) - 1), allowAboveRoot)
              ELSE IF allowAboveRoot
              THEN NormalizeSegments(segs, i + 1, Append(acc, seg), allowAboveRoot)
              ELSE NormalizeSegments(segs, i + 1, acc, allowAboveRoot)
         ELSE NormalizeSegments(segs, i + 1, Append(acc, seg), allowAboveRoot)

RECURSIVE JoinSegments(_, _)
JoinSegments(segs, i) ==
    IF i > Len(segs) THEN <<>>
    ELSE IF i = Len(segs) THEN segs[i]
    ELSE segs[i] \o Slash \o JoinSegments(segs, i + 1)

PathIsAbsolute(p) == Len(p) > 0 /\ p[1] = "/"

PathNormalize(p) ==
    LET abs == PathIsAbsolute(p)
        body == JoinSegments(NormalizeSegments(Split(p), 1, <<>>, ~abs), 1)
    IN  IF body = <<>> THEN (IF abs THEN Slash ELSE Dot)
        ELSE IF abs THEN Slash \o body ELSE body

PathJoin2(a, b) == PathNormalize(a \o Slash \o b)

PathJoin3(a, b, c) == PathNormalize(a \o Slash \o b \o Slash \o c)

\* ---------------------------------------------------------------- payloads
RegistryIndexSchema == "index"
CountryDataSchema == "country"

\* what a parsed JSON body conforms to: the index shape, the dataset shape,
\* or neither; extra = it carries keys the shape does not declare
Shapes == {RegistryIndexSchema, CountryDataSchema, "malformed"}

\* bodies a location can serve: each schema-conforming shape in every
\* version, the first version of each also with undeclared keys, and one
\* body conforming to neither schema
Payloads ==
    [shape : {RegistryIndexSchema, CountryDataSchema}, ver : 1..MaxVer, extra : {FALSE}]
        \cup [shape : {RegistryIndexSchema, CountryDataSchema}, ver : {1}, extra : {TRUE}]
        \cup [shape : {"malformed"}, ver : {1}, extra : {FALSE}]

\* null
Null == [shape |-> "null", ver |-> 0, extra |-> FALSE]

\* JavaScript truthiness of a parsed JSON value (objects are truthy)
Truthy(v) == v # Null

\* a schema that accepts any value
SafeParse_Lenient(schema, data) == [success |-> TRUE, data |-> data]

\* zod safeParse of an object schema: fails on a non-conforming value,
\* otherwise yields the value with undeclared keys stripped
SafeParse(schema, data) ==
    IF data.shape = schema
    THEN [success |-> TRUE, data |-> [data EXCEPT !.extra = FALSE]]
    ELSE [success |-> FALSE, data |-> Null]

\* outcomes of one retrieval: a parsed JSON body, a body that is not JSON,
\* or a failure (unreachable, non-success status, missing file, abort)
NetError == [kind |-> "error", data |-> Null]
NetUnparsable == [kind |-> "unparsable", data |-> Null]
NetJson(d) == [kind |-> "json", data |-> d]
\* no retrieval was made
NetNone == [kind |-> "none", data |-> Null]
Outcomes == {NetError, NetUnparsable} \cup {NetJson(d) : d \in Payloads}

\* what the location of a schema's resource can answer: any body of that
\* schema, the first body of every other shape, or a failure
OutcomesFor(schema) ==
    {o \in Outcomes : o.kind = "json" => (o.data.shape = schema \/ (o.data.ver = 1 /\ ~o.data.extra))}

\* ------------------------------------------------------------ environment
\* values of GEO_DATA_REGISTRY || default
Bases == {
    <<"h", "t", "t", "p", "s", ":", "/", "/", "h">>,
    <<"h", "t", "t", "p", ":", "/", "/", "h">>,
    <<"/", "r">>,
    <<".", "/", "r">> }

Codes == { <<"s", "a">> }

\* country codes handed to the commands; the second is installed next to
\* the first
CmdCodes == Codes \cup { <<"a", "e">> }

\* GeoDataConfig values handed to fetchCountry
Configs == {
    [languages |-> {"ar"}, includeCoordinates |-> TRUE] }

NoConfig == [languages |-> {}, includeCoordinates |-> FALSE]

CountryKey(code) == CountryKeyPrefix \o code

Keys == {IndexKey} \cup {CountryKey(c) : c \in Codes}

\* ------------------------------------------------------------------- state
VARIABLES
    REGISTRY_BASE,  \* base location, resolved once per process
    now,            \* Date.now()
    ticks,          \* clock advances so far
    cache,          \* CACHE_DIR: [exists, files], files: key -> [data, mtimeMs]
    fetchedAt,      \* history: key -> time the cached payload came off the network, -1 if none
    last,           \* observation of the last operation
    req,            \* the request fetchJson has in flight
    proj,           \* one application of filterCountryData
    val,            \* one value handed to a schema
    cmd,            \* the command being run and the output directory
    gen,            \* one directory listing and the accessor module generated from it
    dual,           \* one dataset resolved under two configs in turn
    race            \* two invocations resolving the same key, step by step

vars == <<REGISTRY_BASE, now, ticks, cache, fetchedAt, last, req, proj, val, cmd, gen, dual, race>>

\* no request in flight
ReqIdle == [pc |-> "idle", timer |-> FALSE, elapsed |-> 0, headersAt |-> -1, result |-> "none"]

\* filterCountryData not called
ProjIdle == [pc |-> "idle"]

\* no value handed to a schema
ValIdle == [pc |-> "idle"]

\* no command run
CmdIdle == [pc |-> "idle"]

\* no module generated
GenIdle == [pc |-> "idle"]

\* nothing resolved twice
DualIdle == [pc |-> "idle"]

\* no invocation under way
RaceIdle == [pc |-> "idle"]

EmptyFiles == [k \in {} |-> Null]

NoCacheDir == [exists |-> FALSE, files |-> EmptyFiles]

\* ------------------------------------------------------------- CacheStore
isRemoteRegistry(url) == StartsWith(url, HttpPrefix) \/ StartsWith(url, HttpsPrefix)

pathExists(c, cacheKey) == c.exists /\ cacheKey \in DOMAIN c.files

\* the age comparison turned around
readCache_InvertedAge(c, nowMs, cacheKey, maxAgeMs) ==
    IF pathExists(c, cacheKey) /\ nowMs - c.files[cacheKey].mtimeMs > maxAgeMs
    THEN c.files[cacheKey].data
    ELSE Null

readCache(c, nowMs, cacheKey, maxAgeMs) ==
    IF pathExists(c, cacheKey) /\ nowMs - c.files[cacheKey].mtimeMs < maxAgeMs
    THEN c.files[cacheKey].data
    ELSE Null

writeCache(c, nowMs, cacheKey, data) ==
    [exists |-> TRUE,
     files |-> [k \in (DOMAIN c.files) \cup {cacheKey} |->
                  IF k = cacheKey THEN [data |-> data, mtimeMs |-> nowMs]
                  ELSE c.files[k]]]

\* looks for the entry under a path that never exists
readStaleCache_WrongPath(c, cacheKey) == Null

readStaleCache(c, cacheKey) ==
    IF pathExists(c, cacheKey) THEN c.files[cacheKey].data ELSE Null

\* ------------------------------------------------------------ FetchClient
\* fetch() accepts only an absolute http(s) URL; anything else is rejected
\* before a request is sent
IsFetchableUrl(url) == StartsWith(url, HttpPrefix) \/ StartsWith(url, HttpsPrefix)

\* the branch fetchJson takes for a location
fetchJsonIsLocal(urlOrPath) == PathIsAbsolute(urlOrPath) \/ StartsWith(urlOrPath, Dot)

\* failures swallowed: a failed retrieval yields null instead of throwing
fetchJson_SwallowErrors(urlOrPath, net) ==
    IF fetchJsonIsLocal(urlOrPath)
    THEN [threw |-> FALSE, value |-> net.data, events |-> <<"readJson">>, reply |-> net]
    ELSE LET reply == IF IsFetchableUrl(urlOrPath) THEN net ELSE NetError
         IN  [threw |-> FALSE, value |-> reply.data, events |-> <<"fetch">>, reply |-> reply]

\* net is what the file system (local) or the network (remote) answers;
\* reply is the answer fetchJson got
fetchJson(urlOrPath, net) ==
    IF fetchJsonIsLocal(urlOrPath)
    THEN [threw |-> net.kind # "json", value |-> net.data, events |-> <<"readJson">>,
          reply |-> net]
    ELSE LET reply == IF IsFetchableUrl(urlOrPath) THEN net ELSE NetError
         IN  [threw |-> reply.kind # "json", value |-> reply.data, events |-> <<"fetch">>,
              reply |-> reply]

\* -------------------------------------------------------- RegistryService
\* the location fetchRegistry hands to fetchJson
IndexUrl(base) ==
    IF isRemoteRegistry(base) THEN base \o Slash \o IndexJson ELSE PathJoin2(base, IndexJson)

\* the location fetchCountry hands to fetchJson
CountryUrl(base, code) ==
    IF isRemoteRegistry(base)
    THEN base \o Slash \o CountriesDir \o Slash \o code \o JsonExt
    ELSE PathJoin3(base, CountriesDir, code \o JsonExt)

\* the locations of every base, computed once
IndexUrlOf == [b \in Bases |-> IndexUrl(b)]

CountryUrlOf == [b \in Bases |-> [code \in CmdCodes |-> CountryUrl(b, code)]]

RemoteBases == {b \in Bases : isRemoteRegistry(b)}

\* Lines 143-167 and 188-209, the same in fetchRegistry and fetchCountry:
\* obtain the raw data.  A remote base tries the fresh cache, then the
\* network, then the cache regardless of age; a local base reads directly.
\* net is what the retrieval answers if one is made.  events lists, in
\* program order, what the call does.
acquire_RetryOnce(remote, url, cacheKey, maxAgeMs, c, nowMs, net) ==
    LET cached == readCache(c, nowMs, cacheKey, maxAgeMs)
        fj == fetchJson(url, net)
        stale == readStaleCache(c, cacheKey)
    IN  IF ~remote
        THEN [threw |-> fj.threw, data |-> fj.value, events |-> fj.events, reply |-> fj.reply]
        ELSE IF Truthy(cached)
        THEN [threw |-> FALSE, data |-> cached, events |-> <<"readCache">>, reply |-> NetNone]
        ELSE IF ~fj.threw
        THEN [threw |-> FALSE, data |-> fj.value, events |-> <<"readCache">> \o fj.events,
              reply |-> fj.reply]
        ELSE IF Truthy(stale)
        THEN [threw |-> FALSE, data |-> stale,
              events |-> <<"readCache">> \o fj.events \o fj.events
                         \o <<"readStaleCache", "warn">>,
              reply |-> fj.reply]
        ELSE [threw |-> TRUE, data |-> Null,
              events |-> <<"readCache">> \o fj.events \o fj.events \o <<"readStaleCache">>,
              reply |-> fj.reply]

acquire(remote, url, cacheKey, maxAgeMs, c, nowMs, net) ==
    LET cached == readCache(c, nowMs, cacheKey, maxAgeMs)
        fj == fetchJson(url, net)
        stale == readStaleCache(c, cacheKey)
    IN  IF ~remote
        THEN [threw |-> fj.threw, data |-> fj.value, events |-> fj.events, reply |-> fj.reply]
        ELSE IF Truthy(cached)
        THEN [threw |-> FALSE, data |-> cached, events |-> <<"readCache">>, reply |-> NetNone]
        ELSE IF ~fj.threw
        THEN [threw |-> FALSE, data |-> fj.value, events |-> <<"readCache">> \o fj.events,
              reply |-> fj.reply]
        ELSE IF Truthy(stale)
        THEN [threw |-> FALSE, data |-> stale,
              events |-> <<"readCache">> \o fj.events \o <<"readStaleCache", "warn">>,
              reply |-> fj.reply]
        ELSE [threw |-> TRUE, data |-> Null,
              events |-> <<"readCache">> \o fj.events \o <<"readStaleCache">>,
              reply |-> fj.reply]

\* the cache written before the validation instead of after it
validateAndCache_WriteFirst(remote, schema, cacheKey, c, nowMs, data) ==
    LET result == SafeParse(schema, data)
        written == IF remote THEN writeCache(c, nowMs, cacheKey, data) ELSE c
        wrote == IF remote THEN <<"writeCache">> ELSE <<>>
    IN  IF ~result.success
        THEN [outcome |-> "null", value |-> Null,
              events |-> wrote \o <<"safeParse", "warn">>, cache |-> written]
        ELSE [outcome |-> "value", value |-> result.data,
              events |-> wrote \o <<"safeParse">>, cache |-> written]

\* the cache written whatever the base location is
validateAndCache_AlwaysWrite(remote, schema, cacheKey, c, nowMs, data) ==
    LET result == SafeParse(schema, data)
    IN  IF ~result.success
        THEN [outcome |-> "null", value |-> Null, events |-> <<"safeParse", "warn">>, cache |-> c]
        ELSE [outcome |-> "value", value |-> result.data,
              events |-> <<"safeParse", "writeCache">>,
              cache |-> writeCache(c, nowMs, cacheKey, result.data)]

\* a payload that fails validation evicts the entry of its key
validateAndCache_EvictOnInvalid(remote, schema, cacheKey, c, nowMs, data) ==
    LET result == SafeParse(schema, data)
    IN  IF ~result.success
        THEN [outcome |-> "null", value |-> Null, events |-> <<"safeParse", "warn">>,
              cache |-> [c EXCEPT !.files = [k \in (DOMAIN c.files) \ {cacheKey} |-> c.files[k]]]]
        ELSE IF remote
        THEN [outcome |-> "value", value |-> result.data,
              events |-> <<"safeParse", "writeCache">>,
              cache |-> writeCache(c, nowMs, cacheKey, result.data)]
        ELSE [outcome |-> "value", value |-> result.data, events |-> <<"safeParse">>, cache |-> c]

\* Lines 169-180 and 211-222: validate, warn and return null on failure,
\* otherwise write the parsed data to the cache when the base is remote.
validateAndCache(remote, schema, cacheKey, c, nowMs, data) ==
    LET result == SafeParse(schema, data)
    IN  IF ~result.success
        THEN [outcome |-> "null", value |-> Null, events |-> <<"safeParse", "warn">>, cache |-> c]
        ELSE IF remote
        THEN [outcome |-> "value", value |-> result.data,
              events |-> <<"safeParse", "writeCache">>,
              cache |-> writeCache(c, nowMs, cacheKey, result.data)]
        ELSE [outcome |-> "value", value |-> result.data, events |-> <<"safeParse">>, cache |-> c]

\* One whole call of fetchRegistry() from cache state c at time nowMs.
fetchRegistryCall(base, c, nowMs, net) ==
    LET remote == base \in RemoteBases
        a == acquire(remote, IndexUrlOf[base], IndexKey, INDEX_MAX_AGE, c, nowMs, net)
        v == validateAndCache(remote, RegistryIndexSchema, IndexKey, c, nowMs, a.data)
    IN  IF a.threw
        THEN [outcome |-> "throw", value |-> Null, events |-> a.events, reply |-> a.reply,
              cache |-> c]
        ELSE [outcome |-> v.outcome, value |-> v.value, events |-> a.events \o v.events,
              reply |-> a.reply, cache |-> v.cache]

\* One whole call of fetchCountry(code, config); value is result.data, the
\* caller receives filterCountryData(value, config).
fetchCountryCall_TrustCache(base, c, nowMs, code, net) ==
    LET remote == base \in RemoteBases
        a == acquire(remote, CountryUrlOf[base][code], CountryKey(code), COUNTRY_MAX_AGE,
                     c, nowMs, net)
        v == validateAndCache(remote, CountryDataSchema, CountryKey(code), c, nowMs, a.data)
    IN  IF a.threw
        THEN [outcome |-> "throw", value |-> Null, events |-> a.events, reply |-> a.reply,
              cache |-> c]
        ELSE IF a.events = <<"readCache">>
        THEN [outcome |-> "value", value |-> a.data, events |-> a.events, reply |-> a.reply,
              cache |-> c]
        ELSE [outcome |-> v.outcome, value |-> v.value, events |-> a.events \o v.events,
              reply |-> a.reply, cache |-> v.cache]

fetchCountryCall(base, c, nowMs, code, net) ==
    LET remote == base \in RemoteBases
        a == acquire(remote, CountryUrlOf[base][code], CountryKey(code), COUNTRY_MAX_AGE,
                     c, nowMs, net)
        v == validateAndCache(remote, CountryDataSchema, CountryKey(code), c, nowMs, a.data)
    IN  IF a.threw
        THEN [outcome |-> "throw", value |-> Null, events |-> a.events, reply |-> a.reply,
              cache |-> c]
        ELSE [outcome |-> v.outcome, value |-> v.value, events |-> a.events \o v.events,
              reply |-> a.reply, cache |-> v.cache]

\* the cached payload of a key came off the network in this call
FetchedNow(r) == r.reply.kind = "json" /\ Contains(r.events, "writeCache")

Observe(op, key, config, r) ==
    [op |-> op, key |-> key, config |-> config, net |-> r.reply,
     outcome |-> r.outcome, value |-> r.value, events |-> r.events]

NoCall(op) ==
    [op |-> op, key |-> <<>>, config |-> NoConfig, net |-> NetNone,
     outcome |-> "none", value |-> Null, events |-> <<>>]

\* ----------------------------------------------------------------- actions
Init ==
    /\ REGISTRY_BASE \in Bases
    /\ now = 0
    /\ ticks = 0
    /\ cache = NoCacheDir
    /\ fetchedAt = [k \in Keys |-> -1]
    /\ last = NoCall("start")
    /\ req = ReqIdle
    /\ val = ValIdle
    /\ cmd = CmdIdle
    /\ gen = GenIdle
    /\ dual = DualIdle
    /\ race = RaceIdle
    /\ proj = ProjIdle

fetchRegistry(net) ==
    LET r == fetchRegistryCall(REGISTRY_BASE, cache, now, net) IN
    /\ cache' = r.cache
    /\ fetchedAt' = IF FetchedNow(r) THEN [fetchedAt EXCEPT ![IndexKey] = now] ELSE fetchedAt
    /\ last' = Observe("fetchRegistry", IndexKey, NoConfig, r)
    /\ UNCHANGED <<REGISTRY_BASE, now, ticks, req, proj, val, cmd, gen, dual, race>>

fetchCountry(code, config, net) ==
    LET r == fetchCountryCall(REGISTRY_BASE, cache, now, code, net) IN
    /\ cache' = r.cache
    /\ fetchedAt' = IF FetchedNow(r) THEN [fetchedAt EXCEPT ![CountryKey(code)] = now] ELSE fetchedAt
    /\ last' = Observe("fetchCountry", CountryKey(code), config, r)
    /\ UNCHANGED <<REGISTRY_BASE, now, ticks, req, proj, val, cmd, gen, dual, race>>

\* bytes of the file writeJson produced for a payload
FileSize(data) == data.ver + (IF data.shape = CountryDataSchema THEN 10 ELSE 1)

RECURSIVE SumSizes(_, _)
SumSizes(files, names) ==
    IF names = {} THEN 0
    ELSE LET f == CHOOSE x \in names : TRUE
         IN  FileSize(files[f].data) + SumSizes(files, names \ {f})

\* size assigned instead of accumulated
getCacheInfoCall_LastSizeOnly(c) ==
    IF ~c.exists
    THEN [outcome |-> "null", value |-> Null]
    ELSE [outcome |-> "value",
          value |-> [size |-> IF DOMAIN c.files = {} THEN 0
                              ELSE FileSize(c.files[CHOOSE x \in DOMAIN c.files : TRUE].data),
                     files |-> Cardinality(DOMAIN c.files)]]

\* One whole call of getCacheInfo() on cache state c.
getCacheInfoCall(c) ==
    IF ~c.exists
    THEN [outcome |-> "null", value |-> Null]
    ELSE [outcome |-> "value",
          value |-> [size |-> SumSizes(c.files, DOMAIN c.files),
                     files |-> Cardinality(DOMAIN c.files)]]

getCacheInfo ==
    LET r == getCacheInfoCall(cache) IN
    /\ last' = [NoCall("getCacheInfo") EXCEPT !.outcome = r.outcome, !.value = r.value]
    /\ UNCHANGED <<REGISTRY_BASE, now, ticks, cache, fetchedAt, req, proj, val, cmd, gen, dual, race>>

\* the directory emptied instead of removed
clearCache_FilesOnly ==
    /\ cache' = [exists |-> cache.exists, files |-> EmptyFiles]
    /\ fetchedAt' = [k \in Keys |-> -1]
    /\ last' = [NoCall("clearCache") EXCEPT
                  !.events = [i \in 1..Cardinality(DOMAIN cache.files) |-> "remove"]]
    /\ UNCHANGED <<REGISTRY_BASE, now, ticks, req, proj, val, cmd, gen, dual, race>>

\* fs.remove(CACHE_DIR); events has one "remove" for every file deleted
clearCache ==
    /\ cache' = NoCacheDir
    /\ fetchedAt' = [k \in Keys |-> -1]
    /\ last' = [NoCall("clearCache") EXCEPT
                  !.events = [i \in 1..Cardinality(DOMAIN cache.files) |-> "remove"]]
    /\ UNCHANGED <<REGISTRY_BASE, now, ticks, req, proj, val, cmd, gen, dual, race>>

\* time passes between operations
Tick(d) ==
    /\ ticks < MaxTicks
    /\ now' = now + d
    /\ ticks' = ticks + 1
    /\ last' = NoCall("tick")
    /\ UNCHANGED <<REGISTRY_BASE, cache, fetchedAt, req, proj, val, cmd, gen, dual, race>>

\* the next command runs in a new process, which resolves the base location
\* again; the cache directory is shared
NewProcess(base) ==
    /\ base # REGISTRY_BASE
    /\ REGISTRY_BASE' = base
    /\ last' = NoCall("start")
    /\ UNCHANGED <<now, ticks, cache, fetchedAt, req, proj, val, cmd, gen, dual, race>>

ResolveIndexStep == \E net \in OutcomesFor(RegistryIndexSchema) : fetchRegistry(net)

ResolveDatasetStep ==
    \E code \in Codes, config \in Configs, net \in OutcomesFor(CountryDataSchema) :
        fetchCountry(code, config, net)

Next ==
    \/ ResolveIndexStep
    \/ ResolveDatasetStep
    \/ clearCache
    \/ getCacheInfo
    \/ \E d \in Deltas : Tick(d)
    \/ \E base \in Bases : NewProcess(base)

Spec == Init /\ [][Next]_vars

TypeOK ==
    /\ REGISTRY_BASE \in Bases
    /\ now \in Nat
    /\ ticks \in 0..MaxTicks
    /\ cache.exists \in BOOLEAN
    /\ DOMAIN cache.files \subseteq Keys
    /\ \A k \in Keys : fetchedAt[k] \in Int

\* ------------------------------------------- fetchJson, one remote request
\* The remote branch of fetchJson step by step: the abort timer is armed, the
\* response is awaited, then response.json() is returned and the finally
\* block clears the timer; the body is read after that.  elapsed is the time
\* since the request started.
WaitStep == FETCH_TIMEOUT \div 6

WaitSteps == {WaitStep, 3 * WaitStep}

regVars == <<REGISTRY_BASE, now, ticks, cache, fetchedAt, last>>

InitFetch ==
    /\ REGISTRY_BASE = HttpsPrefix \o <<"h">>
    /\ now = 0
    /\ ticks = 0
    /\ cache = NoCacheDir
    /\ fetchedAt = [k \in Keys |-> -1]
    /\ last = NoCall("start")
    /\ req = ReqIdle
    /\ val = ValIdle
    /\ cmd = CmdIdle
    /\ gen = GenIdle
    /\ dual = DualIdle
    /\ race = RaceIdle
    /\ proj = ProjIdle

\* new AbortController, setTimeout(abort, 30_000), fetch(url, {signal})
StartRequest ==
    /\ req.pc = "idle"
    /\ req' = [ReqIdle EXCEPT !.pc = "awaitResponse", !.timer = TRUE]
    /\ UNCHANGED <<regVars, proj, val, cmd, gen, dual, race>>

\* the response (status line and headers) arrives: a non-success status
\* throws, a success status returns response.json(); either way the finally
\* block clears the timer
ResponseArrives(ok) ==
    /\ req.pc = "awaitResponse"
    /\ req' = IF ok
              THEN [req EXCEPT !.pc = "readBody", !.timer = FALSE, !.headersAt = req.elapsed]
              ELSE [req EXCEPT !.pc = "done", !.timer = FALSE, !.result = "status"]
    /\ UNCHANGED <<regVars, proj, val, cmd, gen, dual, race>>

\* fetch() rejects: the source is unreachable
ConnectionFails ==
    /\ req.pc = "awaitResponse"
    /\ req' = [req EXCEPT !.pc = "done", !.timer = FALSE, !.result = "error"]
    /\ UNCHANGED <<regVars, proj, val, cmd, gen, dual, race>>

\* the body has been read to its end: response.json() settles
BodyArrives(parsable) ==
    /\ req.pc = "readBody"
    /\ req' = [req EXCEPT !.pc = "done", !.result = IF parsable THEN "json" ELSE "unparsable"]
    /\ UNCHANGED <<regVars, proj, val, cmd, gen, dual, race>>

\* the timer callback runs controller.abort(): the request in flight is
\* cancelled and fetchJson throws
TimerFires ==
    /\ req.timer
    /\ req.elapsed >= FETCH_TIMEOUT
    /\ req.pc \in {"awaitResponse", "readBody"}
    /\ req' = [req EXCEPT !.pc = "done", !.timer = FALSE, !.result = "abort"]
    /\ UNCHANGED <<regVars, proj, val, cmd, gen, dual, race>>

\* time passes while the request is outstanding; an armed timer fires at
\* its deadline, so time does not pass it while the timer is armed
Wait(d) ==
    /\ req.pc \in {"awaitResponse", "readBody"}
    /\ req.elapsed + d <= MaxWaitSteps * WaitStep
    /\ req.timer => req.elapsed + d <= FETCH_TIMEOUT
    /\ req' = [req EXCEPT !.elapsed = req.elapsed + d]
    /\ UNCHANGED <<regVars, proj, val, cmd, gen, dual, race>>

NextFetch ==
    \/ StartRequest
    \/ \E ok \in BOOLEAN : ResponseArrives(ok)
    \/ ConnectionFails
    \/ \E parsable \in BOOLEAN : BodyArrives(parsable)
    \/ TimerFires
    \/ \E d \in WaitSteps : Wait(d)

SpecFetch == InitFetch /\ [][NextFetch]_vars

\* ---------------------------------------------------- filterCountryData
\* Name maps are functions from language tags to strings (z.record of
\* strings, the empty string included); an optional coordinate that is
\* missing (undefined) is Absent, a value outside 0..MaxCoord.
Langs == {"en", "fr"}

NameValues == {"", "x"}

NameMaps == UNION {[tags -> NameValues] : tags \in SUBSET Langs}

Absent == -1

Coordinates == {Absent} \cup 0..MaxCoord

Cities == [name : NameMaps, latitude : Coordinates, longitude : Coordinates]

\* a second city and a second region, told from every other by their names
LastCity == [name |-> [lang \in {"en"} |-> "y"], latitude |-> Absent, longitude |-> Absent]

LastRegion == [code |-> "02", name |-> [lang \in {"en"} |-> "y"], cities |-> << >>]

\* the cities of a region: none, one, or one followed by LastCity
CityLists ==
    {<< >>} \cup {<<city>> : city \in Cities} \cup {<<city, LastCity>> : city \in Cities}

Regions == [code : {"01"}, name : NameMaps, cities : CityLists]

\* the regions of a country: none, one, or one followed by LastRegion
RegionLists ==
    {<< >>} \cup {<<region>> : region \in Regions}
            \cup {<<region, LastRegion>> : region \in Regions}

Datasets ==
    [code : {"sa"}, iso3 : {"SAU"}, name : NameMaps, phone : {"+966"}, currency : {"SAR"},
     timezone : {"Asia/Riyadh"}, flag : {"flag"}, regions : RegionLists]

\* languages is a non-empty array (ConfigSchema); its order and repetitions
\* do not change which keys a name map keeps
FilterConfigs == [languages : (SUBSET Langs) \ {{}}, includeCoordinates : BOOLEAN]

\* JavaScript truthiness of name[lang]: a missing key gives undefined, and
\* the empty string is falsy
TruthyAt(name, lang) == lang \in DOMAIN name /\ name[lang] # ""

filterName(name, config) ==
    LET kept == {lang \in config.languages : TruthyAt(name, lang)}
        filtered == [lang \in kept |-> name[lang]]
    IN  IF ~TruthyAt(filtered, "en") /\ TruthyAt(name, "en")
        THEN [lang \in kept \cup {"en"} |-> name[lang]]
        ELSE filtered

filteredCity_SwapAxes(city, config) ==
    LET keep == /\ config.includeCoordinates
                /\ city.latitude # Absent
                /\ city.longitude # Absent
    IN  [name |-> filterName(city.name, config),
         latitude |-> IF keep THEN city.longitude ELSE Absent,
         longitude |-> IF keep THEN city.latitude ELSE Absent]

filteredCity_IgnoreFlag(city, config) ==
    LET keep == /\ city.latitude # Absent
                /\ city.longitude # Absent
    IN  [name |-> filterName(city.name, config),
         latitude |-> IF keep THEN city.latitude ELSE Absent,
         longitude |-> IF keep THEN city.longitude ELSE Absent]

filteredCity(city, config) ==
    LET keep == /\ config.includeCoordinates
                /\ city.latitude # Absent
                /\ city.longitude # Absent
    IN  [name |-> filterName(city.name, config),
         latitude |-> IF keep THEN city.latitude ELSE Absent,
         longitude |-> IF keep THEN city.longitude ELSE Absent]

filterCountryData_NoRegionSpread(data, config) ==
    [data EXCEPT
        !.name = filterName(data.name, config),
        !.regions = [i \in DOMAIN data.regions |->
            [name |-> filterName(data.regions[i].name, config),
             cities |-> [j \in DOMAIN data.regions[i].cities |->
                    filteredCity(data.regions[i].cities[j], config)]]]]

filterCountryData(data, config) ==
    [data EXCEPT
        !.name = filterName(data.name, config),
        !.regions = [i \in DOMAIN data.regions |->
            [data.regions[i] EXCEPT
                !.name = filterName(data.regions[i].name, config),
                !.cities = [j \in DOMAIN data.regions[i].cities |->
                    filteredCity(data.regions[i].cities[j], config)]]]]

\* The objects filterCountryData works on.  An object is named by who owns
\* it (the input dataset, or the call that created it) and by its place in
\* the tree: the country, its name map, its regions array, region i, its
\* name map, its cities array, city j of region i, its name map.
Object(owner, kind, i, j) == [owner |-> owner, kind |-> kind, region |-> i, city |-> j]

ObjectsOf(owner, data) ==
    {Object(owner, "country", 0, 0), Object(owner, "countryName", 0, 0),
     Object(owner, "regions", 0, 0)}
    \cup UNION {{Object(owner, "region", i, 0), Object(owner, "regionName", i, 0),
                 Object(owner, "cities", i, 0)} : i \in DOMAIN data.regions}
    \cup UNION {UNION {{Object(owner, "city", i, j), Object(owner, "cityName", i, j)} :
                        j \in DOMAIN data.regions[i].cities} :
                    i \in DOMAIN data.regions}

\* filterName removing the unrequested keys from the map it was given
filterNameObject_InPlace(nameObject, name, config) ==
    [object |-> nameObject,
     written |-> IF filterName(name, config) # name THEN {nameObject} ELSE {}]

\* filterName as to objects: filtered is a new object, the assignments
\* filtered[lang] = ... and filtered.en = ... write to it, and it is returned
filterNameObject(nameObject, name, config) ==
    LET filtered == [nameObject EXCEPT !.owner = "call"]
    IN  [object |-> filtered,
         written |-> IF filterName(name, config) # << >> THEN {filtered} ELSE {}]

\* filterCountryData as to objects: the objects its result is made of and
\* the objects it assigns to.  The country, each region and filteredCity are
\* object literals, the two arrays come from map.
filterCountryDataObjects(data, config) ==
    LET countryName == filterNameObject(Object("input", "countryName", 0, 0), data.name, config)
        regionName(i) ==
            filterNameObject(Object("input", "regionName", i, 0), data.regions[i].name, config)
        cityName(i, j) ==
            filterNameObject(Object("input", "cityName", i, j),
                             data.regions[i].cities[j].name, config)
        filteredCityObject(i, j) == Object("call", "city", i, j)
        cityWritten(i, j) ==
            IF filteredCity(data.regions[i].cities[j], config).latitude # Absent
            THEN {filteredCityObject(i, j)} ELSE {}
        places == UNION {{<<i, j>> : j \in DOMAIN data.regions[i].cities} :
                            i \in DOMAIN data.regions}
    IN  [objects |->
            {Object("call", "country", 0, 0), countryName.object,
             Object("call", "regions", 0, 0)}
            \cup UNION {{Object("call", "region", i, 0), regionName(i).object,
                         Object("call", "cities", i, 0)} : i \in DOMAIN data.regions}
            \cup UNION {{filteredCityObject(pl[1], pl[2]), cityName(pl[1], pl[2]).object} :
                            pl \in places},
         written |->
            countryName.written
            \cup UNION {regionName(i).written : i \in DOMAIN data.regions}
            \cup UNION {cityName(pl[1], pl[2]).written \cup cityWritten(pl[1], pl[2]) :
                            pl \in places}]

InitFilter ==
    /\ REGISTRY_BASE = HttpsPrefix \o <<"h">>
    /\ now = 0
    /\ ticks = 0
    /\ cache = NoCacheDir
    /\ fetchedAt = [k \in Keys |-> -1]
    /\ last = NoCall("start")
    /\ req = ReqIdle
    /\ val = ValIdle
    /\ cmd = CmdIdle
    /\ gen = GenIdle
    /\ dual = DualIdle
    /\ race = RaceIdle
    /\ proj \in {[pc |-> "input", data |-> d, config |-> c] :
                    d \in Datasets, c \in FilterConfigs}

\* filterCountryData(data, config)
Project ==
    /\ proj.pc = "input"
    /\ proj' = [pc |-> "once", data |-> proj.data, config |-> proj.config,
                once |-> filterCountryData(proj.data, proj.config),
                effect |-> filterCountryDataObjects(proj.data, proj.config)]
    /\ UNCHANGED <<regVars, req, val, cmd, gen, dual, race>>

\* filterCountryData applied to its own result with the same config
ProjectAgain ==
    /\ proj.pc = "once"
    /\ proj' = [pc |-> "twice", data |-> proj.data, config |-> proj.config,
                once |-> proj.once, effect |-> proj.effect,
                twice |-> filterCountryData(proj.once, proj.config)]
    /\ UNCHANGED <<regVars, req, val, cmd, gen, dual, race>>

NextFilter ==
    \/ Project
    \/ ProjectAgain

SpecFilter == InitFilter /\ [][NextFilter]_vars

\* the projection has been applied to the dataset of this state
Projected == proj.pc \in {"once", "twice"}

\* every name map of the dataset paired with its projection
NamePairs ==
    {<<proj.data.name, proj.once.name>>}
    \cup {<<proj.data.regions[i].name, proj.once.regions[i].name>> :
            i \in DOMAIN proj.data.regions}
    \cup UNION {{<<proj.data.regions[i].cities[j].name,
                   proj.once.regions[i].cities[j].name>> :
                    j \in DOMAIN proj.data.regions[i].cities} :
                i \in DOMAIN proj.data.regions}

\* every city of the dataset paired with its projection
CityPairs ==
    UNION {{<<proj.data.regions[i].cities[j], proj.once.regions[i].cities[j]>> :
                j \in DOMAIN proj.data.regions[i].cities} :
            i \in DOMAIN proj.data.regions}

\* ------------------------------------------------- values handed to a schema
\* An untyped value as JSON.parse yields it, tagged with its type.  A key an
\* object does not have reads as Undefined.
Undefined == [t |-> "undefined"]
JsonNull == [t |-> "null"]
Str(x) == [t |-> "string", str |-> x]
Num(n) == [t |-> "number", num |-> n]
Bool(b) == [t |-> "boolean", bool |-> b]
Arr(items) == [t |-> "array", items |-> items]
Obj(fields) == [t |-> "object", fields |-> fields]

IsType(v, type) == v.t = type

VALID_LANGUAGES ==
    {"en", "ar", "de", "es", "fr", "hi", "it", "ja", "ko", "nl", "pl", "pt", "pt-BR",
     "ru", "tr", "uk", "zh"}

\* the keys of ConfigSchema in the order the schema declares them
ConfigKeys == <<"$schema", "outputDir", "languages", "includeCoordinates", "typescript">>

\* a key ConfigSchema does not declare
UndeclaredKey == "comment"

Range(seq) == {seq[i] : i \in DOMAIN seq}

\* values tried for each key of a config file
SchemaUrlValues == {Undefined, Str("https://h/schema.json"), Num(1)}

OutputDirValues == {Undefined, Str(""), Str("./d"), Num(1)}

LanguagesValues ==
    {Undefined, Str("en"), Arr(<< >>), Arr(<<Str("en")>>), Arr(<<Str("xx")>>),
     Arr(<<Str("en"), Str("xx")>>), Arr(<<Num(123)>>), Arr(<<Str("en"), Num(123)>>)}

IncludeCoordinatesValues == {Undefined, Bool(TRUE), Bool(FALSE), Str("yes")}

TypescriptValues == {Undefined, Bool(TRUE), Num(1)}

UndeclaredValues == {Undefined, Str("x")}

ConfigObject(schemaUrl, outputDir, languages, includeCoordinates, typescript, other) ==
    Obj([k \in Range(ConfigKeys) \cup {UndeclaredKey} |->
            CASE k = "$schema" -> schemaUrl
              [] k = "outputDir" -> outputDir
              [] k = "languages" -> languages
              [] k = "includeCoordinates" -> includeCoordinates
              [] k = "typescript" -> typescript
              [] OTHER -> other])

\* what validateConfig can be handed: null, a string, or an object
RawConfigs ==
    {JsonNull, Str("string")}
    \cup {ConfigObject(a, b, c, d, e, x) :
            a \in SchemaUrlValues, b \in OutputDirValues, c \in LanguagesValues,
            d \in IncludeCoordinatesValues, e \in TypescriptValues, x \in UndeclaredValues}

\* an issue of a failed parse: the path of the value and the check it failed
Issue(path, code) == [path |-> path, code |-> code]

\* z.string().optional()
OptionalStringIssues(path, v) ==
    IF IsType(v, "undefined") \/ IsType(v, "string") THEN << >>
    ELSE <<Issue(path, "invalid_type")>>

\* z.string().min(1, message)
NonEmptyStringIssues(path, v) ==
    IF ~IsType(v, "string") THEN <<Issue(path, "invalid_type")>>
    ELSE IF Len(v.str) < 1 THEN <<Issue(path, "too_small")>>
    ELSE << >>

\* z.array(z.string()).min(1, message): the length, then the elements
RECURSIVE ElementIssues(_, _, _)
ElementIssues(path, items, i) ==
    IF i > Len(items) THEN << >>
    ELSE (IF IsType(items[i], "string") THEN << >> ELSE <<Issue(path, "invalid_type")>>)
            \o ElementIssues(path, items, i + 1)

NonEmptyStringArrayIssues(path, v) ==
    IF ~IsType(v, "array") THEN <<Issue(path, "invalid_type")>>
    ELSE (IF Len(v.items) < 1 THEN <<Issue(path, "too_small")>> ELSE << >>)
            \o ElementIssues(path, v.items, 1)

\* z.boolean()
BooleanIssues(path, v) ==
    IF IsType(v, "boolean") THEN << >> ELSE <<Issue(path, "invalid_type")>>

\* ConfigSchema.safeParse: the issues of the keys in declared order, and on
\* success the declared keys of the value
ConfigSchemaSafeParse(config) ==
    IF ~IsType(config, "object")
    THEN [success |-> FALSE, issues |-> <<Issue("", "invalid_type")>>, data |-> Undefined]
    ELSE LET issues ==
                OptionalStringIssues("$schema", config.fields["$schema"])
                \o NonEmptyStringIssues("outputDir", config.fields["outputDir"])
                \o NonEmptyStringArrayIssues("languages", config.fields["languages"])
                \o BooleanIssues("includeCoordinates", config.fields["includeCoordinates"])
                \o BooleanIssues("typescript", config.fields["typescript"])
         IN  IF issues # << >>
             THEN [success |-> FALSE, issues |-> issues, data |-> Undefined]
             ELSE [success |-> TRUE, issues |-> << >>,
                   data |-> Obj([k \in Range(ConfigKeys) |-> config.fields[k]])]

\* an unknown language code refused instead of warned about
validateConfig_RejectUnknown(config) ==
    LET result == ConfigSchemaSafeParse(config)
        unknown == IF result.success
                   THEN {lang \in Range(result.data.fields["languages"].items) :
                            lang.str \notin VALID_LANGUAGES}
                   ELSE {}
    IN  IF ~result.success
        THEN [outcome |-> "throw", error |-> result.issues[1], value |-> Undefined, warned |-> {}]
        ELSE IF unknown # {}
        THEN [outcome |-> "throw", error |-> Issue("languages", "unknown"),
              value |-> Undefined, warned |-> {}]
        ELSE [outcome |-> "return", error |-> Issue("", "none"), value |-> result.data,
              warned |-> {}]

\* validateConfig: throws the message of the first issue, otherwise warns for
\* every language outside VALID_LANGUAGES and returns result.data
validateConfig(config) ==
    LET result == ConfigSchemaSafeParse(config)
    IN  IF ~result.success
        THEN [outcome |-> "throw", error |-> result.issues[1], value |-> Undefined, warned |-> {}]
        ELSE [outcome |-> "return", error |-> Issue("", "none"), value |-> result.data,
              warned |-> {lang.str : lang \in
                            {l \in Range(result.data.fields["languages"].items) :
                                l.str \notin VALID_LANGUAGES}}]

\* z.string(), z.number(), each possibly optional
IsString(v) == IsType(v, "string")
IsOptionalString(v) == IsType(v, "undefined") \/ IsType(v, "string")
IsOptionalNumber(v) == IsType(v, "undefined") \/ IsType(v, "number")

\* z.array(z.string())
IsStringArray(v) == IsType(v, "array") /\ \A i \in DOMAIN v.items : IsString(v.items[i])

\* z.record(z.string(), z.string()): an object whose values are strings
IsStringRecord(v) == IsType(v, "object") /\ \A k \in DOMAIN v.fields : IsString(v.fields[k])

\* an object with the given keys; a key mapped to Undefined is absent
NameObject(en, other) ==
    Obj([k \in {l \in {"en", "fr"} : (IF l = "en" THEN en ELSE other) # Undefined} |->
            IF k = "en" THEN en ELSE other])

\* ---- RegistryIndexSchema
\* name: z.object({ en: z.string(), ar: z.string().optional() })
IndexNames ==
    {Undefined, Str("Saudi Arabia")}
    \cup {Obj([en |-> en, ar |-> ar]) :
            en \in {Undefined, Str(""), Str("x"), Num(5)}, ar \in {Undefined, Str("y")}}

IndexEntries ==
    {Str("SA")}
    \cup {Obj([name |-> name, flag |-> flag, languages |-> languages]) :
            name \in IndexNames, flag \in {Undefined, Str("f")},
            languages \in {Undefined, Arr(<< >>), Arr(<<Str("en")>>)}}

\* what the index location can serve
RawIndexes ==
    {JsonNull}
    \cup {Obj([version |-> version, countries |-> countries]) :
            version \in {Undefined, Str("1")},
            countries \in {Undefined, Obj(<< >>)}
                            \cup {Obj([code \in {"sa"} |-> entry]) : entry \in IndexEntries}}

IndexEntryAccepted(entry) ==
    /\ IsType(entry, "object")
    /\ IsType(entry.fields.name, "object")
    /\ IsString(entry.fields.name.fields.en)
    /\ IsOptionalString(entry.fields.name.fields.ar)
    /\ IsString(entry.fields.flag)
    /\ IsStringArray(entry.fields.languages)

\* RegistryIndexSchema.safeParse(data).success
RegistryIndexSchemaAccepts(data) ==
    /\ IsType(data, "object")
    /\ IsString(data.fields.version)
    /\ IsType(data.fields.countries, "object")
    /\ \A code \in DOMAIN data.fields.countries.fields :
            IndexEntryAccepted(data.fields.countries.fields[code])

\* ---- CitySchema, RegionSchema, CountryDataSchema
RawNames ==
    {Str("x"), NameObject(Num(1), Undefined)}
    \cup {NameObject(en, other) : en \in {Undefined, Str(""), Str("x")},
                                  other \in {Undefined, Str("x")}}

RawCities ==
    {Obj([name |-> name, latitude |-> latitude, longitude |-> longitude]) :
        name \in {NameObject(Str("x"), Undefined), NameObject(Undefined, Str("x")),
                  NameObject(Undefined, Undefined)},
        latitude \in {Undefined, Num(0), Str("0")},
        longitude \in {Undefined, Num(1)}}

RawRegions ==
    {Obj([code |-> Str("01"), name |-> name, cities |-> cities]) :
        name \in {NameObject(Str("x"), Undefined), NameObject(Undefined, Undefined)},
        cities \in {Arr(<< >>)} \cup {Arr(<<city>>) : city \in RawCities}}

\* what a dataset location can serve
RawDatasets ==
    {JsonNull}
    \cup {Obj([code |-> Str("sa"), iso3 |-> Undefined, name |-> name, phone |-> phone,
               currency |-> Str("SAR"), timezone |-> Str("Asia/Riyadh"), flag |-> Str("flag"),
               regions |-> regions]) :
            name \in RawNames, phone \in {Undefined, Str("+966")},
            regions \in {Str("not-an-array"), Arr(<< >>)}
                            \cup {Arr(<<region>>) : region \in RawRegions}}

CitySchemaAccepts(city) ==
    /\ IsType(city, "object")
    /\ IsStringRecord(city.fields.name)
    /\ IsOptionalNumber(city.fields.latitude)
    /\ IsOptionalNumber(city.fields.longitude)

RegionSchemaAccepts(region) ==
    /\ IsType(region, "object")
    /\ IsString(region.fields.code)
    /\ IsStringRecord(region.fields.name)
    /\ IsType(region.fields.cities, "array")
    /\ \A j \in DOMAIN region.fields.cities.items :
            CitySchemaAccepts(region.fields.cities.items[j])

\* CountryDataSchema.safeParse(data).success
CountryDataSchemaAccepts(data) ==
    /\ IsType(data, "object")
    /\ IsString(data.fields.code)
    /\ IsOptionalString(data.fields.iso3)
    /\ IsStringRecord(data.fields.name)
    /\ IsString(data.fields.phone)
    /\ IsString(data.fields.currency)
    /\ IsString(data.fields.timezone)
    /\ IsString(data.fields.flag)
    /\ IsType(data.fields.regions, "array")
    /\ \A i \in DOMAIN data.fields.regions.items :
            RegionSchemaAccepts(data.fields.regions.items[i])

\* result.data of an accepted dataset as the typed value CountryData
TypedName(name) == [lang \in DOMAIN name.fields |-> name.fields[lang].str]

TypedCoordinate(v) == IF IsType(v, "number") THEN v.num ELSE Absent

TypedCity(city) ==
    [name |-> TypedName(city.fields.name),
     latitude |-> TypedCoordinate(city.fields.latitude),
     longitude |-> TypedCoordinate(city.fields.longitude)]

TypedRegion(region) ==
    [code |-> region.fields.code.str, name |-> TypedName(region.fields.name),
     cities |-> [j \in DOMAIN region.fields.cities.items |->
                    TypedCity(region.fields.cities.items[j])]]

TypedCountryData(data) ==
    [code |-> data.fields.code.str, name |-> TypedName(data.fields.name),
     phone |-> data.fields.phone.str, currency |-> data.fields.currency.str,
     timezone |-> data.fields.timezone.str, flag |-> data.fields.flag.str,
     regions |-> [i \in DOMAIN data.fields.regions.items |->
                    TypedRegion(data.fields.regions.items[i])]]

\* the payload of the registry model that stands for a parsed body: its
\* shape is the schema when the schema accepts the body
PayloadOf(schema, accepted) ==
    [shape |-> IF accepted THEN schema ELSE "malformed", ver |-> 1, extra |-> FALSE]

\* geo-data.json in the working directory: absent, present but not readable
\* as JSON, or present with a JSON value
NoConfigFile == [exists |-> FALSE, readable |-> FALSE, json |-> Undefined]

ConfigFiles ==
    {NoConfigFile, [exists |-> TRUE, readable |-> FALSE, json |-> Undefined]}
    \cup {[exists |-> TRUE, readable |-> TRUE, json |-> c] : c \in RawConfigs}

\* the end of getConfigResult once validateConfig has returned or thrown
configResultOf(v) ==
    IF v.outcome = "throw"
    THEN [status |-> "invalid", config |-> Undefined, error |-> v.error]
    ELSE [status |-> "ok", config |-> v.value, error |-> Issue("", "none")]

getConfigResult_NoExistenceTest(file) ==
    IF ~file.exists \/ ~file.readable
    THEN [status |-> "invalid", config |-> Undefined, error |-> Issue("", "readJson")]
    ELSE configResultOf(validateConfig(file.json))

\* getConfigResult(): not_found without the file; a throw of readJson or of
\* validateConfig is caught and becomes invalid with its message
getConfigResult(file) ==
    IF ~file.exists
    THEN [status |-> "not_found", config |-> Undefined, error |-> Issue("", "none")]
    ELSE IF ~file.readable
    THEN [status |-> "invalid", config |-> Undefined, error |-> Issue("", "readJson")]
    ELSE configResultOf(validateConfig(file.json))

\* requireConfig(commandName): the config, or null after an error message
requireConfig(result) ==
    IF result.status = "ok" THEN [config |-> result.config, shown |-> "none"]
    ELSE IF result.status = "not_found" THEN [config |-> JsonNull, shown |-> "No geo-data.json found"]
    ELSE [config |-> JsonNull, shown |-> "Invalid geo-data.json"]

InitValidate ==
    /\ REGISTRY_BASE = HttpsPrefix \o <<"h">>
    /\ now = 0
    /\ ticks = 0
    /\ cache = NoCacheDir
    /\ fetchedAt = [k \in Keys |-> -1]
    /\ last = NoCall("start")
    /\ req = ReqIdle
    /\ proj = ProjIdle
    /\ cmd = CmdIdle
    /\ gen = GenIdle
    /\ dual = DualIdle
    /\ race = RaceIdle
    /\ val \in {[pc |-> "input", kind |-> "config", input |-> c] : c \in RawConfigs}
            \cup {[pc |-> "input", kind |-> "index", input |-> i] : i \in RawIndexes}
            \cup {[pc |-> "input", kind |-> "file", input |-> f] : f \in ConfigFiles}
            \cup {[pc |-> "input", kind |-> "dataset", input |-> d, config |-> c] :
                    d \in RawDatasets, c \in FilterConfigs}

\* validateConfig(raw) as getConfigResult calls it on the parsed file
ValidateConfigFile ==
    /\ val.pc = "input"
    /\ val.kind = "config"
    /\ val' = [pc |-> "done", kind |-> "config", input |-> val.input,
               result |-> validateConfig(val.input)]
    /\ UNCHANGED <<regVars, req, proj, cmd, gen, dual, race>>

\* fetchRegistry from the parsed body on, with a remote base and no cache
ValidateIndexBody ==
    /\ val.pc = "input"
    /\ val.kind = "index"
    /\ LET v == validateAndCache(TRUE, RegistryIndexSchema, IndexKey, NoCacheDir, now,
                    PayloadOf(RegistryIndexSchema, RegistryIndexSchemaAccepts(val.input)))
       IN  val' = [pc |-> "done", kind |-> "index", input |-> val.input,
                   outcome |-> v.outcome,
                   cached |-> IndexKey \in DOMAIN v.cache.files,
                   value |-> IF v.outcome = "value" THEN val.input ELSE Undefined]
    /\ UNCHANGED <<regVars, req, proj, cmd, gen, dual, race>>

\* fetchCountry from the parsed body on, with a remote base and no cache:
\* the caller receives filterCountryData(result.data, config)
ValidateDatasetBody ==
    /\ val.pc = "input"
    /\ val.kind = "dataset"
    /\ \E code \in Codes :
        LET v == validateAndCache(TRUE, CountryDataSchema, CountryKey(code), NoCacheDir, now,
                    PayloadOf(CountryDataSchema, CountryDataSchemaAccepts(val.input)))
        IN  val' = [pc |-> "done", kind |-> "dataset", input |-> val.input,
                    config |-> val.config,
                    outcome |-> v.outcome,
                    cached |-> CountryKey(code) \in DOMAIN v.cache.files,
                    value |-> IF v.outcome = "value"
                              THEN filterCountryData(TypedCountryData(val.input), val.config)
                              ELSE << >>]
    /\ UNCHANGED <<regVars, req, proj, cmd, gen, dual, race>>

\* a command reads the configuration
RequireConfig ==
    /\ val.pc = "input"
    /\ val.kind = "file"
    /\ val' = [pc |-> "done", kind |-> "file", input |-> val.input,
               result |-> getConfigResult(val.input),
               required |-> requireConfig(getConfigResult(val.input))]
    /\ UNCHANGED <<regVars, req, proj, cmd, gen, dual, race>>

NextValidate ==
    \/ ValidateConfigFile
    \/ RequireConfig
    \/ ValidateIndexBody
    \/ ValidateDatasetBody

SpecValidate == InitValidate /\ [][NextValidate]_vars

\* the call on the value of this state has ended
Validated(kind) == val.pc = "done" /\ val.kind = kind

\* ------------------------------------------- one dataset under two configs
\* The datasets the source serves here: one region with one city, the
\* country and the region named in both languages, the city in any.
DualDatasets ==
    {[code |-> "sa", iso3 |-> "SAU", name |-> n, phone |-> "+966", currency |-> "SAR",
      timezone |-> "Asia/Riyadh", flag |-> "flag",
      regions |-> <<[code |-> "01", name |-> n, cities |-> <<city>>]>>] :
        n \in [Langs -> NameValues], city \in Cities}

resolveDataset_CacheProjection(entry, served, config) ==
    LET raw == IF entry # << >> THEN entry[1] ELSE served
    IN  [value |-> filterCountryData(raw, config),
         entry |-> <<filterCountryData(raw, config)>>]

\* fetchCountry against a remote base with the source up: raw is the fresh
\* cache entry if there is one, else what the source serves; the schema
\* accepts it; result.data is written to the cache and its projection
\* returned
resolveDataset(entry, served, config) ==
    LET raw == IF entry # << >> THEN entry[1] ELSE served
    IN  [value |-> filterCountryData(raw, config), entry |-> <<raw>>]

dualFrame == <<regVars, req, proj, val, cmd, gen, race>>

InitDual ==
    /\ REGISTRY_BASE = HttpsPrefix \o <<"h">>
    /\ now = 0
    /\ ticks = 0
    /\ cache = NoCacheDir
    /\ fetchedAt = [k \in Keys |-> -1]
    /\ last = NoCall("start")
    /\ req = ReqIdle
    /\ proj = ProjIdle
    /\ val = ValIdle
    /\ cmd = CmdIdle
    /\ gen = GenIdle
    /\ race = RaceIdle
    /\ dual \in {[pc |-> "start", data |-> d, c1 |-> c1, c2 |-> c2, entry |-> << >>] :
                    d \in DualDatasets, c1 \in FilterConfigs, c2 \in FilterConfigs}

\* the first resolution, with config c1, finds no entry
ResolveWithFirst ==
    /\ dual.pc = "start"
    /\ LET r == resolveDataset(dual.entry, dual.data, dual.c1)
       IN  dual' = [pc |-> "first", data |-> dual.data, c1 |-> dual.c1, c2 |-> dual.c2,
                    entry |-> r.entry, first |-> r.value]
    /\ UNCHANGED dualFrame

\* the second, with config c2, comes within the freshness window
ResolveWithSecond ==
    /\ dual.pc = "first"
    /\ LET r == resolveDataset(dual.entry, dual.data, dual.c2)
       IN  dual' = [pc |-> "second", data |-> dual.data, c1 |-> dual.c1, c2 |-> dual.c2,
                    entry |-> r.entry, first |-> dual.first, second |-> r.value]
    /\ UNCHANGED dualFrame

NextDual ==
    \/ ResolveWithFirst
    \/ ResolveWithSecond

SpecDual == InitDual /\ [][NextDual]_vars

\* ------------------------------------------------------ a tampered cache
\* The cache directory as something other than this program left it: one
\* file, written at time 0, holding a JSON value no schema accepts (an
\* object of another shape, or null).
TamperedPayloads == {[shape |-> "malformed", ver |-> 1, extra |-> FALSE], Null}

TamperedCaches ==
    {writeCache(NoCacheDir, 0, k, d) : k \in Keys, d \in TamperedPayloads}

InitTampered ==
    /\ REGISTRY_BASE = HttpsPrefix \o <<"h">>
    /\ now = 0
    /\ ticks = 0
    /\ cache \in TamperedCaches
    /\ fetchedAt = [k \in Keys |-> -1]
    /\ last = NoCall("start")
    /\ req = ReqIdle
    /\ proj = ProjIdle
    /\ val = ValIdle
    /\ cmd = CmdIdle
    /\ gen = GenIdle
    /\ dual = DualIdle
    /\ race = RaceIdle

NextTampered ==
    \/ ResolveIndexStep
    \/ ResolveDatasetStep
    \/ \E d \in Deltas : Tick(d)

SpecTampered == InitTampered /\ [][NextTampered]_vars

\* ---------------------------------------------------------------- commands
\* add, update, remove and cache clear against a remote registry.  The
\* output directory maps the code of every dataset file in it to what was
\* written; the index module lists the codes generateIndex found.
IndexBody == [shape |-> RegistryIndexSchema, ver |-> 1, extra |-> FALSE]

DatasetBody == [shape |-> CountryDataSchema, ver |-> 1, extra |-> FALSE]

MalformedBody == [shape |-> "malformed", ver |-> 1, extra |-> FALSE]

\* registry.countries: the codes the index lists
IndexCountries == CmdCodes

\* a code the index does not list
UnknownCode == <<"z", "z">>

\* what the source answers during one command, per location
NetUp ==
    [index |-> NetJson(IndexBody), country |-> [code \in CmdCodes |-> NetJson(DatasetBody)]]

NetDown == [index |-> NetError, country |-> [code \in CmdCodes |-> NetError]]

NetBadIndex == [NetUp EXCEPT !.index = NetJson(MalformedBody)]

NetBadDataset(code) == [NetUp EXCEPT !.country[code] = NetJson(MalformedBody)]

CmdNets == {NetUp, NetDown, NetBadIndex} \cup {NetBadDataset(code) : code \in CmdCodes}

\* countryCodes of add and remove
CodeLists ==
    {<<code>> : code \in CmdCodes \cup {UnknownCode}}
    \cup {<<code, UnknownCode>> : code \in Codes}
    \cup {pair \in CmdCodes \X CmdCodes : pair[1] # pair[2]}

\* --force, or the answer to the confirmation prompt
Answers == {"force", "yes", "no"}

\* the dataset files whose write or removal the file system refuses
DiskFailures == {{}} \cup {{code} : code \in CmdCodes}

NoFiles == [code \in {} |-> Null]

NoIndexModule == [exists |-> FALSE, codes |-> {}]

\* getInstalledCountries(outputDir): the names of the .json files
getInstalledCountries(outputDir) == DOMAIN outputDir

\* the codes in the order of their code units
CodeOrder == << <<"a", "e">>, <<"s", "a">>, UnknownCode >>

\* Array.prototype.sort on codes
SortCodes(codes) == SelectSeq(CodeOrder, LAMBDA code : code \in codes)

\* generateIndex(config): lists the dataset files of the output directory
\* and writes the accessor module for them
generateIndex(outputDir) == [exists |-> TRUE, codes |-> getInstalledCountries(outputDir)]

\* what a command has done so far
Progress(c, outputDir, indexModule) ==
    [cache |-> c, outputDir |-> outputDir, indexModule |-> indexModule,
     exitCode |-> 0, loaded |-> FALSE, previewed |-> FALSE,
     resolved |-> {}, attempted |-> {}, written |-> {}, removed |-> {}, failed |-> {},
     inSync |-> TRUE, generated |-> 0]

\* Body of the loops of add and update once fetchCountry has returned r: the
\* dataset is written to <outputDir>/<code>.json; a null result, a throw of
\* fetchCountry and a throw of writeJson leave the file as it was.  `failed'
\* records the codes so left, whether or not the command keeps a list.
store(st, code, r, diskFails) ==
    IF r.outcome # "value" \/ code \in diskFails
    THEN [st EXCEPT !.cache = r.cache,
                    !.resolved = @ \cup {code},
                    !.attempted = IF Contains(r.events, "fetch") THEN @ \cup {code} ELSE @,
                    !.failed = @ \cup {code}]
    ELSE [st EXCEPT !.cache = r.cache,
                    !.resolved = @ \cup {code},
                    !.attempted = IF Contains(r.events, "fetch") THEN @ \cup {code} ELSE @,
                    !.outputDir = [k \in (DOMAIN st.outputDir) \cup {code} |->
                                     IF k = code THEN r.value ELSE st.outputDir[k]],
                    !.written = @ \cup {code},
                    !.inSync = FALSE]

materialize(st, base, nowMs, code, net, diskFails) ==
    store(st, code, fetchCountryCall(base, st.cache, nowMs, code, net.country[code]), diskFails)

RECURSIVE materializeAll_StopAtFailure(_, _, _, _, _, _)
materializeAll_StopAtFailure(st, base, nowMs, codes, net, diskFails) ==
    IF codes = << >> \/ st.failed # {} THEN st
    ELSE materializeAll_StopAtFailure(
             materialize(st, base, nowMs, Head(codes), net, diskFails),
             base, nowMs, Tail(codes), net, diskFails)

RECURSIVE materializeAll(_, _, _, _, _, _)
materializeAll(st, base, nowMs, codes, net, diskFails) ==
    IF codes = << >> THEN st
    ELSE materializeAll(materialize(st, base, nowMs, Head(codes), net, diskFails),
                        base, nowMs, Tail(codes), net, diskFails)

\* the regenerated index module
regenerate(st) ==
    [st EXCEPT !.indexModule = generateIndex(st.outputDir), !.inSync = TRUE,
               !.generated = @ + 1]

failWith(st) == [st EXCEPT !.exitCode = 1]

\* const registry = await fetchRegistry()
loaded(st, r) == [st EXCEPT !.cache = r.cache, !.loaded = r.outcome = "value"]

\* the end of add: the index is generated when a dataset was added, the
\* exit code set when one failed
addEnd(looped) ==
    IF looped.failed # {}
    THEN failWith(IF looped.written # {} THEN regenerate(looped) ELSE looped)
    ELSE IF looped.written # {} THEN regenerate(looped) ELSE looped

\* add from the confirmation prompt on
addChosen(st, base, nowMs, newCodes, dryRun, net, diskFails) ==
    IF newCodes = << >> THEN st
    ELSE IF dryRun THEN [st EXCEPT !.previewed = TRUE]
    ELSE addEnd(materializeAll(st, base, nowMs, newCodes, net, diskFails))

addLoaded_DropUnknown(st, r, base, nowMs, codes, dryRun, answer, net, diskFails) ==
    IF r.outcome # "value" THEN failWith(loaded(st, r))
    ELSE addChosen(loaded(st, r), base, nowMs,
                   SelectSeq(codes, LAMBDA c : c \in IndexCountries), dryRun, net, diskFails)

\* add once fetchRegistry has returned r
addLoaded(st, r, base, nowMs, codes, dryRun, answer, net, diskFails) ==
    IF r.outcome # "value" THEN failWith(loaded(st, r))
    ELSE IF \E i \in DOMAIN codes : codes[i] \notin IndexCountries THEN failWith(loaded(st, r))
    ELSE IF /\ \E i \in DOMAIN codes : codes[i] \in DOMAIN st.outputDir
            /\ answer = "no"
            /\ ~dryRun
    THEN addChosen(loaded(st, r), base, nowMs,
                   SelectSeq(codes, LAMBDA c : c \notin DOMAIN st.outputDir),
                   dryRun, net, diskFails)
    ELSE addChosen(loaded(st, r), base, nowMs, codes, dryRun, net, diskFails)

\* add(countryCodes, options) once the configuration is read
addCall(st, base, nowMs, codes, dryRun, answer, net, diskFails) ==
    addLoaded(st, fetchRegistryCall(base, st.cache, nowMs, net.index), base, nowMs, codes,
              dryRun, answer, net, diskFails)

\* update once fetchRegistry has returned r
updateLoaded(st, r, base, nowMs, dryRun, net, diskFails) ==
    IF r.outcome # "value" THEN failWith(loaded(st, r))
    ELSE IF dryRun THEN [loaded(st, r) EXCEPT !.previewed = TRUE]
    ELSE regenerate(materializeAll(
             loaded(st, r), base, nowMs,
             SelectSeq(SortCodes(getInstalledCountries(st.outputDir)),
                       LAMBDA c : c \in IndexCountries),
             net, diskFails))

\* update(options) once the configuration is read
updateCall(st, base, nowMs, dryRun, net, diskFails) ==
    IF getInstalledCountries(st.outputDir) = {} THEN failWith(st)
    ELSE updateLoaded(st, fetchRegistryCall(base, st.cache, nowMs, net.index), base, nowMs,
                      dryRun, net, diskFails)

\* the removal loop of remove and what follows it: a throw of fs.remove
\* leaves the loop for the outer catch
RECURSIVE removeAll(_, _, _)
removeAll(st, codes, diskFails) ==
    IF codes = << >> THEN regenerate(st)
    ELSE IF Head(codes) \in diskFails THEN failWith([st EXCEPT !.failed = @ \cup {Head(codes)}])
    ELSE removeAll([st EXCEPT
                      !.outputDir = [k \in (DOMAIN st.outputDir) \ {Head(codes)} |->
                                       st.outputDir[k]],
                      !.removed = @ \cup {Head(codes)},
                      !.inSync = FALSE],
                   Tail(codes), diskFails)

removeLoaded_IgnoreDryRun(st, r, toRemove, dryRun, answer, diskFails) ==
    IF r.outcome # "value" THEN failWith(loaded(st, r))
    ELSE IF answer = "no" THEN loaded(st, r)
    ELSE removeAll(loaded(st, r), toRemove, diskFails)

\* remove once fetchRegistry has returned r
removeLoaded(st, r, toRemove, dryRun, answer, diskFails) ==
    IF r.outcome # "value" THEN failWith(loaded(st, r))
    ELSE IF dryRun THEN [loaded(st, r) EXCEPT !.previewed = TRUE]
    ELSE IF answer = "no" THEN loaded(st, r)
    ELSE removeAll(loaded(st, r), toRemove, diskFails)

\* remove(countryCodes, options) once the configuration is read
removeCall(st, base, nowMs, codes, dryRun, answer, net, diskFails) ==
    IF \A i \in DOMAIN codes : codes[i] \notin DOMAIN st.outputDir THEN failWith(st)
    ELSE removeLoaded(st, fetchRegistryCall(base, st.cache, nowMs, net.index),
                      SelectSeq(codes, LAMBDA c : c \in DOMAIN st.outputDir),
                      dryRun, answer, diskFails)

\* what is known after a command has returned; requested are the codes add
\* was given, declined that its prompt, if shown, was answered no
Finished(name, requested, declined, dryRun, configured, st) ==
    [pc |-> "done", name |-> name, requested |-> requested, declined |-> declined,
     dryRun |-> dryRun, configured |-> configured, generated |-> st.generated,
     exitCode |-> st.exitCode,
     outputDir |-> st.outputDir, indexModule |-> st.indexModule,
     before |-> cmd.outputDir, indexBefore |-> cmd.indexModule,
     loaded |-> st.loaded, previewed |-> st.previewed,
     resolved |-> st.resolved, attempted |-> st.attempted, written |-> st.written,
     removed |-> st.removed, failed |-> st.failed, inSync |-> st.inSync]

cmdFrame == <<REGISTRY_BASE, now, ticks, fetchedAt, last, req, proj, val, gen, dual, race>>

InitCommands ==
    /\ REGISTRY_BASE = HttpsPrefix \o <<"h">>
    /\ now = 0
    /\ ticks = 0
    /\ cache = NoCacheDir
    /\ fetchedAt = [k \in Keys |-> -1]
    /\ last = NoCall("start")
    /\ req = ReqIdle
    /\ proj = ProjIdle
    /\ val = ValIdle
    /\ gen = GenIdle
    /\ dual = DualIdle
    /\ race = RaceIdle
    /\ cmd = [pc |-> "done", name |-> "start", requested |-> {}, declined |-> FALSE,
              dryRun |-> FALSE, configured |-> TRUE, generated |-> 0,
              exitCode |-> 0,
              outputDir |-> NoFiles, indexModule |-> NoIndexModule,
              before |-> NoFiles, indexBefore |-> NoIndexModule,
              loaded |-> FALSE, previewed |-> FALSE,
              resolved |-> {}, attempted |-> {}, written |-> {}, removed |-> {},
              failed |-> {}, inSync |-> TRUE]

\* requireConfig found no configuration: the command sets the exit code
\* and returns
Unconfigured(name) ==
    \E dryRun \in BOOLEAN :
        /\ cmd' = Finished(name, {}, FALSE, dryRun, FALSE,
                           failWith(Progress(cache, cmd.outputDir, cmd.indexModule)))
        /\ UNCHANGED <<cache, cmdFrame>>

\* the prompts are not reached in a dry run
AnswersIn(dryRun) == IF dryRun THEN {"force"} ELSE Answers

add ==
    \E codes \in CodeLists, dryRun \in BOOLEAN, net \in CmdNets, diskFails \in DiskFailures :
      \E answer \in AnswersIn(dryRun) :
        LET st == addCall(Progress(cache, cmd.outputDir, cmd.indexModule), REGISTRY_BASE, now,
                          codes, dryRun, answer, net, diskFails)
        IN  /\ cmd' = Finished("add", Range(codes), answer = "no", dryRun, TRUE, st)
            /\ cache' = st.cache
            /\ UNCHANGED cmdFrame

update ==
    \E dryRun \in BOOLEAN, net \in CmdNets, diskFails \in DiskFailures :
        LET st == updateCall(Progress(cache, cmd.outputDir, cmd.indexModule), REGISTRY_BASE,
                             now, dryRun, net, diskFails)
        IN  /\ cmd' = Finished("update", {}, FALSE, dryRun, TRUE, st)
            /\ cache' = st.cache
            /\ UNCHANGED cmdFrame

remove ==
    \E codes \in CodeLists, dryRun \in BOOLEAN, net \in {NetUp, NetDown, NetBadIndex},
       diskFails \in DiskFailures :
      \E answer \in AnswersIn(dryRun) :
        LET st == removeCall(Progress(cache, cmd.outputDir, cmd.indexModule), REGISTRY_BASE,
                             now, codes, dryRun, answer, net, diskFails)
        IN  /\ cmd' = Finished("remove", {}, FALSE, dryRun, TRUE, st)
            /\ cache' = st.cache
            /\ UNCHANGED cmdFrame

\* cache("clear"): clearCache removes the cache directory
cacheClear ==
    /\ cmd' = Finished("cache", {}, FALSE, FALSE, TRUE,
                       Progress(NoCacheDir, cmd.outputDir, cmd.indexModule))
    /\ cache' = NoCacheDir
    /\ UNCHANGED cmdFrame

NextCommands ==
    \/ add
    \/ update
    \/ remove
    \/ cacheClear
    \/ Unconfigured("add")
    \/ Unconfigured("update")
    \/ Unconfigured("remove")

SpecCommands == InitCommands /\ [][NextCommands]_vars

\* ------------------------------------------------- installed sets, codegen
\* the most entries a directory listing has here
MaxFiles == 3

\* the entries a listing of the output directory can hold
FileNames == {
    <<"s", "a">> \o JsonExt,
    <<"a", "e">> \o JsonExt,
    <<"A", "E">> \o JsonExt,
    IndexJson,
    <<"i", "n", "d", "e", "x", ".", "t", "s">> }

\* fs.readdir(outputDir): the entries in the order the file system gives
\* them, or a rejection
Listings ==
    UNION {{l \in [1..n -> FileNames] : \A i, j \in 1..n : l[i] = l[j] => i = j} :
             n \in 0..MaxFiles}

Directories ==
    {[readable |-> FALSE, files |-> << >>]}
    \cup {[readable |-> TRUE, files |-> l] : l \in Listings}

\* UTF-16 code units of the characters of the entries
CodeUnit ==
    [c \in {".", "A", "E", "S", "a", "d", "e", "i", "j", "n", "o", "s", "t", "x"} |->
        CASE c = "." -> 46 [] c = "A" -> 65 [] c = "E" -> 69 [] c = "S" -> 83 [] c = "a" -> 97
          [] c = "d" -> 100 [] c = "e" -> 101 [] c = "i" -> 105 [] c = "j" -> 106
          [] c = "n" -> 110 [] c = "o" -> 111 [] c = "s" -> 115 [] c = "t" -> 116
          [] c = "x" -> 120]

\* String.prototype.toUpperCase, toLowerCase
toUpperCase(s) ==
    [i \in DOMAIN s |-> CASE s[i] = "a" -> "A" [] s[i] = "e" -> "E" [] s[i] = "s" -> "S"
                          [] OTHER -> s[i]]

toLowerCase(s) ==
    [i \in DOMAIN s |-> CASE s[i] = "A" -> "a" [] s[i] = "E" -> "e" [] s[i] = "S" -> "s"
                          [] OTHER -> s[i]]

\* comparison of strings by code units
RECURSIVE StringLeq(_, _)
StringLeq(a, b) ==
    IF a = << >> THEN TRUE
    ELSE IF b = << >> THEN FALSE
    ELSE IF a[1] = b[1] THEN StringLeq(Tail(a), Tail(b))
    ELSE CodeUnit[a[1]] < CodeUnit[b[1]]

\* Array.prototype.sort() on strings
RECURSIVE SortStrings(_)
SortStrings(seq) ==
    IF seq = << >> THEN << >>
    ELSE LET i == CHOOSE i \in DOMAIN seq :
                    /\ \A j \in DOMAIN seq : StringLeq(seq[i], seq[j])
                    /\ \A j \in 1..(i - 1) : seq[j] # seq[i]
         IN  <<seq[i]>> \o SortStrings(SubSeq(seq, 1, i - 1) \o SubSeq(seq, i + 1, Len(seq)))

\* String.prototype.endsWith
EndsWith(s, suffix) ==
    /\ Len(s) >= Len(suffix)
    /\ SubSeq(s, Len(s) - Len(suffix) + 1, Len(s)) = suffix

\* s.replace(pattern, ""): the first occurrence of the pattern is removed
ReplaceFirst(s, pattern) ==
    LET starts == {i \in 1..(Len(s) - Len(pattern) + 1) :
                     SubSeq(s, i, i + Len(pattern) - 1) = pattern}
    IN  IF starts = {} THEN s
        ELSE LET i == CHOOSE i \in starts : \A j \in starts : i <= j
             IN  SubSeq(s, 1, i - 1) \o SubSeq(s, i + Len(pattern), Len(s))

getInstalledCountriesIn_KeepIndex(dir) ==
    LET files == SelectSeq(IF dir.readable THEN dir.files ELSE << >>,
                           LAMBDA f : EndsWith(f, JsonExt))
    IN  [i \in DOMAIN files |-> ReplaceFirst(files[i], JsonExt)]

\* getInstalledCountries(outputDir) on a listing: a rejected readdir counts
\* as no entries; the .json entries other than index.json, without ".json"
getInstalledCountriesIn(dir) ==
    LET files == SelectSeq(IF dir.readable THEN dir.files ELSE << >>,
                           LAMBDA f : EndsWith(f, JsonExt) /\ f # IndexJson)
    IN  [i \in DOMAIN files |-> ReplaceFirst(files[i], JsonExt)]

\* generate(config): the accessor module for the dataset files of the
\* output directory, their codes sorted
generate(installed) == [codes |-> SortStrings(installed)]

\* getCountryCodes() of the generated module
getCountryCodes(module) == [i \in DOMAIN module.codes |-> toUpperCase(module.codes[i])]

\* the name maps getLocalizedName is asked about: key and value pairs in
\* the order of the keys
EntityNames ==
    {<<e>> : e \in {"en", "ar", "fr"} \X {"v"}}
    \cup {<<<<p[1], "v1">>, <<p[2], "v2">>>> :
               p \in {q \in {"en", "ar", "fr"} \X {"en", "ar", "fr"} : q[1] # q[2]}}

LanguagesAsked == {"en", "ar", "ja"}

\* the value of a key of a name map, the key being present
ValueAt(name, key) == name[CHOOSE i \in DOMAIN name : name[i][1] = key][2]

HasKey(name, key) == \E i \in DOMAIN name : name[i][1] = key

getLocalizedName_NoEnglish(name, lang) ==
    IF HasKey(name, lang) THEN ValueAt(name, lang) ELSE name[1][2]

\* getLocalizedName(entity, lang) of the generated module: the requested
\* language, then en, then the first key
getLocalizedName(name, lang) ==
    IF HasKey(name, lang) THEN ValueAt(name, lang)
    ELSE IF HasKey(name, "en") THEN ValueAt(name, "en")
    ELSE name[1][2]

genFrame == <<regVars, req, proj, val, cmd, dual, race>>

InitCodegen ==
    /\ REGISTRY_BASE = HttpsPrefix \o <<"h">>
    /\ now = 0
    /\ ticks = 0
    /\ cache = NoCacheDir
    /\ fetchedAt = [k \in Keys |-> -1]
    /\ last = NoCall("start")
    /\ req = ReqIdle
    /\ proj = ProjIdle
    /\ val = ValIdle
    /\ cmd = CmdIdle
    /\ dual = DualIdle
    /\ race = RaceIdle
    /\ gen \in {[pc |-> "dir", dir |-> d] : d \in Directories}
            \cup {[pc |-> "entity", name |-> n, lang |-> l] :
                    n \in EntityNames, l \in LanguagesAsked}

\* a command lists the installed datasets
ListInstalled ==
    /\ gen.pc = "dir"
    /\ gen' = [pc |-> "listed", dir |-> gen.dir, installed |-> getInstalledCountriesIn(gen.dir)]
    /\ UNCHANGED genFrame

\* the accessor module is generated and asked for its codes
Generate ==
    /\ gen.pc = "dir"
    /\ gen' = [pc |-> "generated", dir |-> gen.dir,
               codes |-> getCountryCodes(generate(getInstalledCountriesIn(gen.dir)))]
    /\ UNCHANGED genFrame

\* the accessor module is asked for a name
Localize ==
    /\ gen.pc = "entity"
    /\ gen' = [pc |-> "named", name |-> gen.name, lang |-> gen.lang,
               result |-> getLocalizedName(gen.name, gen.lang)]
    /\ UNCHANGED genFrame

NextCodegen ==
    \/ ListInstalled
    \/ Generate
    \/ Localize

SpecCodegen == InitCodegen /\ [][NextCodegen]_vars

\* the fields of an object other than those named
Rest(object, fields) == [f \in (DOMAIN object) \ fields |-> object[f]]

\* ------------------------------------------------------------ vocabulary
SchemaOfKey(k) == IF k = IndexKey THEN RegistryIndexSchema ELSE CountryDataSchema

WindowOfKey(k) == IF k = IndexKey THEN INDEX_MAX_AGE ELSE COUNTRY_MAX_AGE

BaseIsRemote == StartsWith(REGISTRY_BASE, HttpPrefix) \/ StartsWith(REGISTRY_BASE, HttpsPrefix)

HasEntry(k) == cache.exists /\ k \in DOMAIN cache.files

AgeOf(k) == now - cache.files[k].mtimeMs

LastIsResolve == last.op \in {"fetchRegistry", "fetchCountry"}

\* this step is one call of fetchRegistry or fetchCountry; last' observes it
ResolveStep == last'.op \in {"fetchRegistry", "fetchCountry"}

Fetched(obs) == Contains(obs.events, "fetch")

\* the retrieval was made and did not deliver a parsed body
NetFailed(net) == net.kind \in {"error", "unparsable"}

\* ------------------------------------------------------------------ claims

\* C1: against a remote source, after any sequence of fetchRegistry,
\* fetchCountry and clearCache calls with arbitrary fetch outcomes, every
\* entry present in the cache holds a payload that conforms to the schema of
\* its key.
C1_CacheHoldsOnlyValidated ==
    \A k \in DOMAIN cache.files : cache.files[k].data.shape = SchemaOfKey(k)

\* an invalid payload has just been fetched while every key is cached
C1_Witness ==
    /\ BaseIsRemote
    /\ LastIsResolve /\ Fetched(last) /\ last.outcome = "null"
    /\ \A k \in Keys : HasEntry(k)

\* C2: when a remote fetch succeeds and the payload fails validation, the
\* call returns null and the cache is exactly what it was before the call.
C2_InvalidFetchLeavesCache ==
    [][LET k == last'.key
           net == last'.net
       IN (/\ ResolveStep
           /\ BaseIsRemote
           /\ net.kind = "json" /\ net.data.shape # SchemaOfKey(k))
          => (last'.outcome = "null" /\ cache' = cache)]_vars

\* an invalid payload was fetched for a key whose stale entry is still there
C2_Witness ==
    /\ BaseIsRemote
    /\ LastIsResolve /\ Fetched(last) /\ last.outcome = "null"
    /\ ~Contains(last.events, "readStaleCache")
    /\ HasEntry(last.key) /\ AgeOf(last.key) >= WindowOfKey(last.key)

\* C3: when the entry of a key is older than its freshness window and the
\* network fetch fails, the call returns the stale cached payload, whatever
\* its age, and emits exactly one warning.
C3_StaleFallback ==
    [][LET k == last'.key
           net == last'.net
       IN (/\ ResolveStep
           /\ BaseIsRemote
           /\ HasEntry(k) /\ AgeOf(k) > WindowOfKey(k)
           /\ NetFailed(net))
          => (/\ last'.outcome = "value"
              /\ last'.value = cache.files[k].data
              /\ Count(last'.events, "warn") = 1)]_vars

\* a failed fetch was answered from an entry older than its window
C3_Witness ==
    /\ BaseIsRemote
    /\ LastIsResolve /\ Fetched(last) /\ Contains(last.events, "readStaleCache")
    /\ last.outcome = "value"
    /\ fetchedAt[last.key] >= 0 /\ now - fetchedAt[last.key] > WindowOfKey(last.key)

\* C4: when the remote fetch fails and the key has no cache entry of any
\* age, the call raises the failure (it returns neither null nor a value) and
\* the key still has no entry.
C4_FailureWithoutCachePropagates ==
    [][LET k == last'.key
           net == last'.net
       IN (/\ ResolveStep
           /\ BaseIsRemote
           /\ ~HasEntry(k)
           /\ NetFailed(net))
          => (last'.outcome = "throw" /\ k \notin DOMAIN cache'.files)]_vars

\* a fetch failed with nothing cached for the key
C4_Witness ==
    /\ BaseIsRemote
    /\ LastIsResolve /\ Fetched(last) /\ last.outcome = "throw"
    /\ ~HasEntry(last.key)

C6_RefetchOnceWindowElapsed ==
    [][LET k == last'.key
       IN (/\ ResolveStep
           /\ BaseIsRemote
           /\ HasEntry(k) /\ fetchedAt[k] >= 0
           /\ now - fetchedAt[k] > WindowOfKey(k))
          => last'.net.kind # "none"]_vars

\* C7: a cache entry is created or rewritten only in a resolution whose
\* network fetch succeeded and whose fetched payload validated; a resolution
\* answered from the cache writes nothing and the entry keeps its mtime.
C7_WriteOnlyAfterValidatedFetch ==
    [][(/\ ResolveStep
        /\ \E k \in Keys :
              /\ k \in DOMAIN cache'.files
              /\ (HasEntry(k) => cache'.files[k] # cache.files[k]))
       => (last'.net.kind = "json" /\ last'.outcome = "value")]_vars

\* C8: within one call against a remote source the fetch precedes the
\* validation and a successful validation precedes the cache write; the cache
\* changes in no call without a write that follows a successful validation.
C8_FetchValidateWriteOrder ==
    [][(ResolveStep /\ BaseIsRemote)
       => LET ev == last'.events
          IN  /\ Count(ev, "fetch") <= 1
              /\ Count(ev, "safeParse") <= 1
              /\ Count(ev, "writeCache") <= 1
              /\ (Contains(ev, "fetch") /\ Contains(ev, "safeParse")
                    => IndexOf(ev, "fetch") < IndexOf(ev, "safeParse"))
              /\ Contains(ev, "writeCache")
                    => (/\ Contains(ev, "safeParse")
                        /\ IndexOf(ev, "safeParse") < IndexOf(ev, "writeCache")
                        /\ last'.outcome = "value")
              /\ cache' # cache => Contains(ev, "writeCache")]_vars

\* a call fetched, validated and wrote, in that order
C8_Witness ==
    /\ BaseIsRemote
    /\ LastIsResolve
    /\ last.events = <<"readCache", "fetch", "safeParse", "writeCache">>
    /\ HasEntry(last.key) /\ cache.files[last.key].data = last.value

\* C9: with a local base location (not starting with http:// or https://) a
\* call neither reads nor writes the cache, whatever the outcome: the cache
\* after the call equals the cache before it.
C9_LocalBaseBypassesCache ==
    [][(ResolveStep /\ ~BaseIsRemote)
       => (/\ cache' = cache
           /\ ~Contains(last'.events, "readCache")
           /\ ~Contains(last'.events, "readStaleCache")
           /\ ~Contains(last'.events, "writeCache"))]_vars

\* a local read returned a valid payload other than the one cached for its key
C9_Witness ==
    /\ ~BaseIsRemote
    /\ LastIsResolve /\ last.outcome = "value"
    /\ HasEntry(last.key) /\ cache.files[last.key].data # last.value

\* C10: for every base location classified as local, the location handed to
\* fetchJson is read as a local resource: fetchJson takes its local branch
\* and fetch() is not called.
C10_LocalBaseReadLocally ==
    (LastIsResolve /\ ~BaseIsRemote)
        => (Contains(last.events, "readJson") /\ ~Contains(last.events, "fetch"))

\* C12: when the remote source answers with a success response whose payload
\* is malformed (a body that cannot be parsed, or a parsed body that does not
\* conform), the call ends in the validation outcome: null with one warning,
\* no exception and no stale entry served.
C12_MalformedIsValidationOutcome ==
    [][LET k == last'.key
           net == last'.net
       IN (/\ ResolveStep
           /\ BaseIsRemote
           /\ \/ net.kind = "unparsable"
              \/ net.kind = "json" /\ net.data.shape # SchemaOfKey(k))
          => (/\ last'.outcome = "null"
              /\ Count(last'.events, "warn") = 1
              /\ ~Contains(last'.events, "readStaleCache"))]_vars

\* C13: readCache(key, maxAge) returns the stored payload exactly when an
\* entry for the key exists and its age does not exceed maxAge (an age equal
\* to maxAge included), and null otherwise.
C13_GetWithinMaxAge ==
    \A k \in Keys :
        readCache(cache, now, k, WindowOfKey(k))
            = IF HasEntry(k) /\ AgeOf(k) <= WindowOfKey(k) THEN cache.files[k].data ELSE Null

\* C14: after clearCache every key is absent for readCache and for
\* readStaleCache and getCacheInfo returns null; the first resolution after
\* it with the network unreachable throws instead of serving cached data.
C14_ClearCacheEmptiesEverything ==
    [][/\ last'.op = "clearCache"
          => (/\ \A k \in Keys :
                    /\ readCache(cache', now', k, WindowOfKey(k)) = Null
                    /\ readStaleCache(cache', k) = Null
              /\ getCacheInfoCall(cache').outcome = "null")
       /\ (last.op = "clearCache" /\ ResolveStep /\ BaseIsRemote /\ NetFailed(last'.net))
          => last'.outcome = "throw"]_vars

\* clearCache has just removed a cache that held an entry for every key
C14_Witness ==
    /\ last.op = "clearCache"
    /\ Len(last.events) = Cardinality(Keys)
    /\ ~cache.exists

\* C15: getCacheInfo returns null when the cache directory does not exist,
\* otherwise files = the number of entries and size = the sum of their file
\* sizes, and it changes no cache entry.
C15_CacheInfoCountsEntries ==
    [][last'.op = "getCacheInfo"
       => (/\ cache' = cache
           /\ IF ~cache.exists
              THEN last'.outcome = "null"
              ELSE /\ last'.outcome = "value"
                   /\ last'.value.files = Cardinality({k \in Keys : HasEntry(k)})
                   /\ last'.value.size =
                        (IF HasEntry(IndexKey) THEN FileSize(cache.files[IndexKey].data) ELSE 0)
                        + SumSizes(cache.files, DOMAIN cache.files \ {IndexKey}))]_vars

\* getCacheInfo has reported a cache holding an entry for every key
C15_Witness ==
    /\ last.op = "getCacheInfo"
    /\ last.outcome = "value"
    /\ last.value.files = Cardinality(Keys)
    /\ \A k \in Keys : HasEntry(k)

\* C11: a remote fetch that has not delivered its complete payload 30
\* seconds after it started is cancelled: no request is outstanding past its
\* deadline, neither before the response arrives nor while the body is read.
C11_NoFetchPastDeadline ==
    req.pc \in {"awaitResponse", "readBody"} => req.elapsed <= FETCH_TIMEOUT

\* C16: filterCountryData is idempotent: applying it to its own result with
\* the same config gives that result again.
C16_ProjectionIdempotent ==
    proj.pc = "twice" => proj.twice = proj.once

\* a projection that removed something and kept a city's two distinct
\* coordinates has been applied twice
C16_Witness ==
    /\ proj.pc = "twice"
    /\ proj.once # proj.data
    /\ proj.twice = proj.once
    /\ \E p \in CityPairs :
        /\ p[2].latitude # Absent
        /\ p[2].latitude # p[2].longitude

\* C17: with includeCoordinates = true, a city whose latitude is 0 keeps
\* latitude 0 and a city whose longitude is 0 keeps longitude 0.
C17_ZeroCoordinatePreserved ==
    (Projected /\ proj.config.includeCoordinates) =>
        \A p \in CityPairs :
            /\ p[1].latitude = 0 => p[2].latitude = 0
            /\ p[1].longitude = 0 => p[2].longitude = 0

\* C18: with includeCoordinates = true, each coordinate of a city is kept
\* exactly when the source city has it, with the source value, whether or
\* not the other coordinate is there.
C18_CoordinatesIndependent ==
    (Projected /\ proj.config.includeCoordinates) =>
        \A p \in CityPairs :
            /\ p[2].latitude = p[1].latitude
            /\ p[2].longitude = p[1].longitude

\* C19: a projected name map has key en whenever its source name map has
\* key en, whatever the languages of the config and the value of en.
C19_EnglishAlwaysKept ==
    Projected =>
        \A p \in NamePairs : "en" \in DOMAIN p[1] => "en" \in DOMAIN p[2]

\* C20: the keys of a projected name map are the source keys that are in
\* config.languages, plus en when the source has it, and every kept key has
\* its source value.
C20_KeptKeysExact ==
    Projected =>
        \A p \in NamePairs :
            /\ DOMAIN p[2] = (DOMAIN p[1] \cap proj.config.languages)
                                \cup (DOMAIN p[1] \cap {"en"})
            /\ \A lang \in DOMAIN p[2] : p[2][lang] = p[1][lang]

\* C21: with includeCoordinates = false no city of the projection, in any
\* region, has a latitude or a longitude.
C21_NoCoordinatesWhenExcluded ==
    (Projected /\ ~proj.config.includeCoordinates) =>
        \A p \in CityPairs : p[2].latitude = Absent /\ p[2].longitude = Absent

\* a dataset whose city has both coordinates was projected without them
C21_Witness ==
    /\ Projected
    /\ ~proj.config.includeCoordinates
    /\ \E p \in CityPairs :
        /\ p[1].latitude # Absent
        /\ p[1].longitude # Absent
        /\ p[2].latitude = Absent

\* C22: every field of the country other than name and regions, and every
\* field of a region other than name and cities, equals the source's, and
\* the projection has the regions and the cities of the source, as many and
\* in the same order.
C22_OtherFieldsPassThrough ==
    Projected =>
        /\ Rest(proj.once, {"name", "regions"}) = Rest(proj.data, {"name", "regions"})
        /\ DOMAIN proj.once.regions = DOMAIN proj.data.regions
        /\ \A i \in DOMAIN proj.data.regions :
            /\ Rest(proj.once.regions[i], {"name", "cities"})
                    = Rest(proj.data.regions[i], {"name", "cities"})
            /\ DOMAIN proj.once.regions[i].cities = DOMAIN proj.data.regions[i].cities
            /\ \A j \in DOMAIN proj.data.regions[i].cities :
                TruthyAt(proj.data.regions[i].cities[j].name, "en") =>
                    /\ "en" \in DOMAIN proj.once.regions[i].cities[j].name
                    /\ proj.once.regions[i].cities[j].name["en"]
                            = proj.data.regions[i].cities[j].name["en"]

\* a dataset of two regions, the first of two cities with different
\* English names, was projected and lost something
C22_Witness ==
    /\ Projected
    /\ proj.once # proj.data
    /\ Len(proj.data.regions) = 2
    /\ Len(proj.data.regions[1].cities) = 2
    /\ TruthyAt(proj.data.regions[1].cities[1].name, "en")

\* C23: filterCountryData assigns to no object of its input, and its result
\* is made of no object of its input: no name map, region, city or array of
\* the dataset is written or shared.
C23_InputNeitherWrittenNorShared ==
    Projected =>
        /\ proj.effect.written \cap ObjectsOf("input", proj.data) = {}
        /\ proj.effect.objects \cap ObjectsOf("input", proj.data) = {}

\* a projection that removed a language from a city's name map and copied
\* its coordinates has been made: the call has assigned to objects
C23_Witness ==
    /\ Projected
    /\ proj.once # proj.data
    /\ \E p \in CityPairs : p[2].name # p[1].name /\ p[2].latitude # Absent
    /\ Object("call", "cityName", 1, 1) \in proj.effect.written
    /\ Object("call", "city", 1, 1) \in proj.effect.written

\* C24: every dataset resolveDataset returns has key en in the name map of
\* the country and in the name map of every city.
C24_ReturnedDatasetHasEnglishNames ==
    (Validated("dataset") /\ val.outcome = "value") =>
        /\ "en" \in DOMAIN val.value.name
        /\ \A i \in DOMAIN val.value.regions :
            \A j \in DOMAIN val.value.regions[i].cities :
                "en" \in DOMAIN val.value.regions[i].cities[j].name

\* C25: an index that is returned or cached has a non-empty en name in
\* every entry of countries.
C25_IndexEntriesHaveEnglishName ==
    (Validated("index") /\ (val.outcome = "value" \/ val.cached)) =>
        \A code \in DOMAIN val.input.fields.countries.fields :
            LET en == val.input.fields.countries.fields[code].fields.name.fields.en
            IN  IsType(en, "string") /\ en.str # ""

\* what C30 calls a config: outputDir a non-empty string, languages a
\* non-empty array of strings, includeCoordinates and typescript booleans,
\* $schema absent or a string
C30_IsConfig(v) ==
    /\ v.t = "object"
    /\ v.fields["$schema"].t \in {"undefined", "string"}
    /\ v.fields["outputDir"].t = "string"
    /\ v.fields["outputDir"] # Str("")
    /\ v.fields["languages"].t = "array"
    /\ v.fields["languages"].items # << >>
    /\ \A i \in DOMAIN v.fields["languages"].items : v.fields["languages"].items[i].t = "string"
    /\ v.fields["includeCoordinates"].t = "boolean"
    /\ v.fields["typescript"].t = "boolean"

\* the constraint a key of the config violates, if any
C30_Violation(v, key) ==
    LET x == v.fields[key]
    IN  CASE key = "$schema" ->
                IF x.t \in {"undefined", "string"} THEN "none" ELSE "invalid_type"
          [] key = "outputDir" ->
                IF x.t # "string" THEN "invalid_type"
                ELSE IF x = Str("") THEN "too_small" ELSE "none"
          [] key = "languages" ->
                IF x.t # "array" THEN "invalid_type"
                ELSE IF x.items = << >> THEN "too_small"
                ELSE IF \E i \in DOMAIN x.items : x.items[i].t # "string" THEN "invalid_type"
                ELSE "none"
          [] OTHER -> IF x.t = "boolean" THEN "none" ELSE "invalid_type"

\* C30: validateConfig returns the config (its declared keys, $schema
\* included) exactly when the value is a config; otherwise it throws what
\* the first violated constraint, in the order of the schema, says; a
\* language outside the supported list is warned about and accepted.
C30_ValidateConfigContract ==
    Validated("config") =>
        LET v == val.input
            r == val.result
        IN  /\ (r.outcome = "return") <=> C30_IsConfig(v)
            /\ r.outcome \in {"return", "throw"}
            /\ r.outcome = "return" =>
                /\ \A k \in Range(ConfigKeys) : r.value.fields[k] = v.fields[k]
                /\ r.warned = {v.fields["languages"].items[i].str :
                                i \in {n \in DOMAIN v.fields["languages"].items :
                                        v.fields["languages"].items[n].str \notin VALID_LANGUAGES}}
            /\ (r.outcome = "throw" /\ v.t # "object") =>
                    r.error = [path |-> "", code |-> "invalid_type"]
            /\ (r.outcome = "throw" /\ v.t = "object") =>
                    \E n \in DOMAIN ConfigKeys :
                        /\ \A m \in 1..(n - 1) : C30_Violation(v, ConfigKeys[m]) = "none"
                        /\ C30_Violation(v, ConfigKeys[n]) # "none"
                        /\ r.error = [path |-> ConfigKeys[n],
                                      code |-> C30_Violation(v, ConfigKeys[n])]

\* a config naming an unknown language, with a key the schema does not
\* declare, was returned with a warning
C30_Witness ==
    /\ Validated("config")
    /\ val.result.outcome = "return"
    /\ val.result.warned = {"xx"}
    /\ val.input.fields[UndeclaredKey] # Undefined
    /\ val.input.fields["$schema"] # Undefined


\* a mutating command has returned
Returned(names) == cmd.pc = "done" /\ cmd.configured /\ cmd.name \in names

\* C26: whenever at least one dataset fails to resolve or to be written during
\* add or update, the command ends with a non-zero completion status.
C26_FailedDatasetFailsCommand ==
    (Returned({"add", "update"}) /\ cmd.failed # {}) => cmd.exitCode # 0

\* C27: on every path by which add, remove or update finishes, if the command
\* created, overwrote or deleted at least one dataset file, generateIndex ran
\* after the last such modification, so the index lists exactly the dataset
\* files present in the output directory.
C27_IndexRegeneratedAfterModification ==
    (Returned({"add", "update", "remove"}) /\ (cmd.written \cup cmd.removed) # {})
        => /\ cmd.inSync
           /\ cmd.indexModule.exists
           /\ cmd.indexModule.codes = getInstalledCountries(cmd.outputDir)

\* C28: every update that is not a dry run, against a remote registry whose
\* index it loaded, performs a network fetch for each installed dataset that
\* is present in the index, whatever the cache holds.
C28_UpdateRefetchesEveryDataset ==
    (Returned({"update"}) /\ ~cmd.dryRun /\ cmd.loaded /\ isRemoteRegistry(REGISTRY_BASE))
        => \A code \in getInstalledCountries(cmd.before) \cap IndexCountries :
               code \in cmd.attempted

C31_ConfigResultOutcomes ==
    Validated("file") =>
        LET file == val.input
            r == val.result
            valid == file.exists /\ file.readable /\ C30_IsConfig(file.json)
        IN  /\ r.status \in {"ok", "not_found", "invalid"}
            /\ (r.status = "not_found") <=> ~file.exists
            /\ (r.status = "ok") <=> valid
            /\ r.status = "ok" =>
                /\ \A k \in Range(ConfigKeys) : r.config.fields[k] = file.json.fields[k]
                /\ val.required = [config |-> r.config, shown |-> "none"]
            /\ r.status = "invalid" => r.error # Issue("", "none")
            /\ r.status # "ok" => (val.required.config = JsonNull /\ val.required.shown # "none")

\* a readable file that does not validate gave invalid, and requireConfig
\* null after its message
C31_Witness ==
    /\ Validated("file")
    /\ val.result.status = "invalid"
    /\ val.input.readable
    /\ val.required.shown = "Invalid geo-data.json"


\* the codes of the dataset files of a directory: the entries named
\* <code>.json other than index.json
DatasetCodes(dir) ==
    {SubSeq(f, 1, Len(f) - Len(JsonExt)) :
        f \in {g \in Range(dir.files) : EndsWith(g, JsonExt) /\ g # IndexJson}}

Ascending(seq) == \A i \in 1..(Len(seq) - 1) : StringLeq(seq[i], seq[i + 1])

\* C32: for any output directory containing a given set of dataset files,
\* getCountryCodes() of the generated module returns the upper-cased codes
\* of those files in sorted order, whatever the order of the listing.
C32_CountryCodesSortedUpperCase ==
    gen.pc = "generated" =>
        /\ Ascending(gen.codes)
        /\ Len(gen.codes) = Cardinality(DatasetCodes(gen.dir))
        /\ Range(gen.codes) = {toUpperCase(code) : code \in DatasetCodes(gen.dir)}

\* a module generated from a listing that gives two datasets in descending
\* order, with index.json before them
C32_Witness ==
    /\ gen.pc = "generated"
    /\ gen.dir.files = <<IndexJson, <<"s", "a">> \o JsonExt, <<"a", "e">> \o JsonExt>>
    /\ gen.codes = << <<"A", "E">>, <<"S", "A">> >>

\* C33: getLocalizedName returns entity.name[lang] when that key is present,
\* otherwise entity.name.en when present, otherwise the value of the first
\* key of the name map.
C33_LocalizedNameChain ==
    gen.pc = "named" =>
        LET keys == [i \in DOMAIN gen.name |-> gen.name[i][1]]
        IN  \/ /\ Contains(keys, gen.lang)
               /\ gen.result = gen.name[IndexOf(keys, gen.lang)][2]
            \/ /\ ~Contains(keys, gen.lang)
               /\ Contains(keys, "en")
               /\ gen.result = gen.name[IndexOf(keys, "en")][2]
            \/ /\ ~Contains(keys, gen.lang)
               /\ ~Contains(keys, "en")
               /\ gen.result = gen.name[1][2]

\* a name without the requested language whose second key is en
C33_Witness ==
    /\ gen.pc = "named"
    /\ gen.lang = "ja"
    /\ gen.name = << <<"ar", "v1">>, <<"en", "v2">> >>
    /\ gen.result = "v2"

\* C35: getInstalledCountries returns the codes of the files ending in .json
\* other than index.json, in ascending order and lower-cased, and nothing
\* when the directory cannot be read.
C35_InstalledSortedLowerCase ==
    gen.pc = "listed" =>
        /\ Ascending(gen.installed)
        /\ Len(gen.installed) = Cardinality(DatasetCodes(gen.dir))
        /\ Range(gen.installed) = {toLowerCase(code) : code \in DatasetCodes(gen.dir)}
        /\ ~gen.dir.readable => gen.installed = << >>


\* C34: if at least one requested code is absent from the resolved index,
\* add resolves no dataset, writes no dataset file, does not regenerate the
\* index module and ends with a non-zero completion status, even when other
\* requested codes are valid.
C34_UnknownCodeStopsAdd ==
    (Returned({"add"}) /\ cmd.loaded /\ cmd.requested \ IndexCountries # {})
        => /\ cmd.resolved = {}
           /\ cmd.written = {}
           /\ cmd.outputDir = cmd.before
           /\ cmd.generated = 0
           /\ cmd.indexModule = cmd.indexBefore
           /\ cmd.exitCode # 0

\* add was given a listed code next to an unknown one and loaded the index
C34_Witness ==
    /\ Returned({"add"})
    /\ cmd.loaded
    /\ ~cmd.dryRun
    /\ cmd.requested = {<<"s", "a">>, UnknownCode}
    /\ cmd.exitCode = 1

\* C37: in add, a dataset that fails does not stop the remaining requested
\* codes from being processed and leaves no file written for the failed
\* code; the index module is regenerated exactly once when at least one
\* dataset was written and not at all when none was.
C37_AddGoesOnAfterFailure ==
    (Returned({"add"}) /\ ~cmd.dryRun /\ cmd.loaded /\ cmd.requested \subseteq IndexCountries)
        => /\ cmd.resolved = IF cmd.declined
                             THEN cmd.requested \ DOMAIN cmd.before
                             ELSE cmd.requested
           /\ cmd.failed \cup cmd.written = cmd.resolved
           /\ cmd.failed \cap cmd.written = {}
           /\ \A code \in cmd.failed :
                /\ code \in DOMAIN cmd.outputDir <=> code \in DOMAIN cmd.before
                /\ code \in DOMAIN cmd.before => cmd.outputDir[code] = cmd.before[code]
           /\ cmd.generated = IF cmd.written # {} THEN 1 ELSE 0

\* add of two codes: one failed, the other was written and the index
\* regenerated once
C37_Witness ==
    /\ Returned({"add"})
    /\ cmd.failed = {<<"s", "a">>}
    /\ cmd.written = {<<"a", "e">>}
    /\ <<"s", "a">> \notin DOMAIN cmd.outputDir
    /\ cmd.generated = 1
    /\ cmd.exitCode = 1


\* C36: every resolveIndex and resolveDataset call performs at most one
\* fetch attempt, whatever its outcome (valid, invalid, network failure):
\* nothing is retried.
C36_AtMostOneFetchAttempt ==
    last.op \in {"fetchRegistry", "fetchCountry"}
        => Count(last.events, "fetch") + Count(last.events, "readJson") <= 1

\* a call whose one fetch brought a body the schema rejects ended absent
C36_Witness ==
    /\ last.op = "fetchCountry"
    /\ last.net.kind = "json"
    /\ last.outcome = "null"
    /\ Count(last.events, "fetch") = 1


\* the call of this step met, under its key, a file younger than the window
\* whose payload readCache hands over and the schema of the key rejects
HitOnInvalidEntry ==
    /\ last'.op \in {"fetchRegistry", "fetchCountry"}
    /\ BaseIsRemote
    /\ HasEntry(last'.key)
    /\ AgeOf(last'.key) < WindowOfKey(last'.key)
    /\ Truthy(cache.files[last'.key].data)
    /\ cache.files[last'.key].data.shape # SchemaOfKey(last'.key)

C38_CacheHoldsFullDataset ==
    dual.pc \in {"first", "second"} =>
        /\ dual.entry = <<dual.data>>
        /\ dual.first = filterCountryData(dual.data, dual.c1)
        /\ dual.pc = "second" => dual.second = filterCountryData(dual.data, dual.c2)

\* the second resolution returned a language and coordinates the first
\* config had filtered out
C38_Witness ==
    /\ dual.pc = "second"
    /\ dual.c1 = [languages |-> {"en"}, includeCoordinates |-> FALSE]
    /\ dual.c2 = [languages |-> {"en", "fr"}, includeCoordinates |-> TRUE]
    /\ "fr" \notin DOMAIN dual.first.name
    /\ dual.first.regions[1].cities[1].latitude = Absent
    /\ TruthyAt(dual.data.name, "fr")
    /\ TruthyAt(dual.data.regions[1].cities[1].name, "fr")
    /\ "fr" \in DOMAIN dual.second.name
    /\ "fr" \in DOMAIN dual.second.regions[1].cities[1].name
    /\ dual.second.regions[1].cities[1].latitude = 0


\* ------------------------------------------- two invocations for one key
\* Two calls of fetchRegistry, or of fetchCountry for one code, against one
\* cache directory and a remote base.  Each await of the source is one
\* step of a call; what lies between two awaits runs without interruption.
Procs == {1, 2}

\* the entry a cache directory starts with: none, or a payload an earlier
\* call validated and wrote, still fresh or gone stale
RaceCaches(k, nowMs) ==
    {NoCacheDir}
        \cup {writeCache(NoCacheDir, t, k, [shape |-> SchemaOfKey(k), ver |-> 1, extra |-> FALSE]) :
                t \in {0, nowMs}}

ensureDir(c) == [c EXCEPT !.exists = TRUE]

\* writes only where no file is yet
writeJson_KeepExisting(c, nowMs, cacheKey, data) ==
    IF cacheKey \in DOMAIN c.files
    THEN c
    ELSE [exists |-> c.exists,
          files |-> [k \in (DOMAIN c.files) \cup {cacheKey} |->
                       IF k = cacheKey THEN [data |-> data, mtimeMs |-> nowMs]
                       ELSE c.files[k]]]

\* fs.writeJson: the file holds data afterwards, whatever it held before
writeJson(c, nowMs, cacheKey, data) ==
    [exists |-> c.exists,
     files |-> [k \in (DOMAIN c.files) \cup {cacheKey} |->
                  IF k = cacheKey THEN [data |-> data, mtimeMs |-> nowMs]
                  ELSE c.files[k]]]

\* from the value assigned to raw up to the next await: safeParse, then
\* either the early return of null or the call of writeCache
afterRaw(schema, raw) ==
    LET result == SafeParse(schema, raw)
    IN  IF result.success
        THEN [pc |-> "ensureDir", data |-> result.data]
        ELSE [pc |-> "done", data |-> Null]

raceFrame == <<REGISTRY_BASE, now, ticks, fetchedAt, last, req, proj, val, cmd, gen, dual>>

InitRace ==
    /\ REGISTRY_BASE = HttpsPrefix \o <<"h">>
    /\ now = COUNTRY_MAX_AGE
    /\ ticks = 0
    /\ fetchedAt = [k \in Keys |-> -1]
    /\ last = NoCall("start")
    /\ req = ReqIdle
    /\ proj = ProjIdle
    /\ val = ValIdle
    /\ cmd = CmdIdle
    /\ gen = GenIdle
    /\ dual = DualIdle
    /\ \E k \in Keys :
        /\ cache \in RaceCaches(k, COUNTRY_MAX_AGE)
        /\ race = [pc |-> "run", key |-> k,
                   procs |-> [i \in Procs |-> [pc |-> "start", data |-> Null]],
                   writes |-> << >>]

RaceStep(i, p) == race' = [race EXCEPT !.procs[i] = p]

\* readCache up to its last await: pathExists, stat and the age test
RaceStat(i) ==
    /\ race.pc = "run"
    /\ race.procs[i].pc = "start"
    /\ RaceStep(i, [pc |-> IF pathExists(cache, race.key)
                              /\ now - cache.files[race.key].mtimeMs < WindowOfKey(race.key)
                           THEN "readJson" ELSE "fetchJson",
                    data |-> Null])
    /\ UNCHANGED <<cache, raceFrame>>

\* fs.readJson of readCache, then if (cached)
RaceReadJson(i) ==
    /\ race.pc = "run"
    /\ race.procs[i].pc = "readJson"
    /\ LET cached == cache.files[race.key].data
       IN  RaceStep(i, IF Truthy(cached)
                       THEN afterRaw(SchemaOfKey(race.key), cached)
                       ELSE [pc |-> "fetchJson", data |-> Null])
    /\ UNCHANGED <<cache, raceFrame>>

\* fetchJson: a body, or a rejection that the catch block takes
RaceFetchJson(i) ==
    /\ race.pc = "run"
    /\ race.procs[i].pc = "fetchJson"
    /\ \E o \in OutcomesFor(SchemaOfKey(race.key)) :
        RaceStep(i, IF o.kind = "json"
                    THEN afterRaw(SchemaOfKey(race.key), o.data)
                    ELSE [pc |-> "readStale", data |-> Null])
    /\ UNCHANGED <<cache, raceFrame>>

\* readStaleCache in the catch block, then if (stale) ... else throw
RaceReadStale(i) ==
    /\ race.pc = "run"
    /\ race.procs[i].pc = "readStale"
    /\ LET stale == readStaleCache(cache, race.key)
       IN  RaceStep(i, IF Truthy(stale)
                       THEN afterRaw(SchemaOfKey(race.key), stale)
                       ELSE [pc |-> "done", data |-> Null])
    /\ UNCHANGED <<cache, raceFrame>>

\* fs.ensureDir of writeCache
RaceEnsureDir(i) ==
    /\ race.pc = "run"
    /\ race.procs[i].pc = "ensureDir"
    /\ cache' = ensureDir(cache)
    /\ RaceStep(i, [pc |-> "writeJson", data |-> race.procs[i].data])
    /\ UNCHANGED raceFrame

\* fs.writeJson of writeCache, after which the call returns
RaceWriteJson(i) ==
    /\ race.pc = "run"
    /\ race.procs[i].pc = "writeJson"
    /\ cache' = writeJson(cache, now, race.key, race.procs[i].data)
    /\ race' = [race EXCEPT !.procs[i] = [pc |-> "done", data |-> race.procs[i].data],
                            !.writes = Append(race.writes,
                                              [by |-> i, data |-> race.procs[i].data])]
    /\ UNCHANGED raceFrame

NextRace ==
    \E i \in Procs :
        \/ RaceStat(i)
        \/ RaceReadJson(i)
        \/ RaceFetchJson(i)
        \/ RaceReadStale(i)
        \/ RaceEnsureDir(i)
        \/ RaceWriteJson(i)

SpecRace == InitRace /\ [][NextRace]_vars

RaceDone == race.pc = "run" /\ \A i \in Procs : race.procs[i].pc = "done"

\* C40: two interleaved invocations for one key never leave a payload in
\* the cache that fails validation, and once both have completed the entry
\* is the payload of the invocation whose cache write came last.
C40_LastWriterWinsValidated ==
    race.pc = "run" =>
        /\ HasEntry(race.key) =>
              SafeParse(SchemaOfKey(race.key), cache.files[race.key].data).success
        /\ (RaceDone /\ race.writes # << >>) =>
              /\ HasEntry(race.key)
              /\ cache.files[race.key].data = race.writes[Len(race.writes)].data

\* both invocations fetched, validated and wrote, with different payloads
C40_Witness ==
    /\ RaceDone
    /\ Len(race.writes) = 2
    /\ race.writes[1].by = 2
    /\ race.writes[2].by = 1
    /\ race.writes[1].data # race.writes[2].data
    /\ cache.files[race.key].data = race.procs[1].data

====
